---------------------------- MODULE Spec2Model ----------------------------
(***************************************************************************)
(* A model of libdex's DexChannel (src/src/dex-channel.c): a bounded FIFO  *)
(* of futures with parked senders (sendq) and parked receivers (recvq).    *)
(*                                                                         *)
(* Several threads call dex_channel_send, dex_channel_receive,             *)
(* dex_channel_close_send and dex_channel_close_receive.  Everything a     *)
(* function does between dex_object_lock and dex_object_unlock is one      *)
(* step unless it completes a promise; what it does after the unlock       *)
(* (chaining, resolving, rejecting) is a later step of the same thread, so *)
(* other threads can run in between.                                       *)
(*                                                                         *)
(* Further parts follow the channel, each with its own specification:     *)
(* DexTimeout (dex-timeout.c, SpecTimeout), DexFiber with the programs of  *)
(* test-fiber.c (dex-fiber.c, SpecFiber), a promise with its listeners     *)
(* (SpecFuture), the fiber scheduler's dispatch and await (SpecScheduler), *)
(* the relative constructors of DexTimeout (SpecArming), and the io_uring   *)
(* AIO context of dex-uring-aio-backend.c (SpecUring).  Futures,           *)
(* listeners, dispatch and await are not in the sources at hand and follow *)
(* the specification.  A specification runs one part and leaves the        *)
(* variables of the others as they start.                                  *)
(***************************************************************************)
EXTENDS Integers, Sequences, FiniteSets, TLC

(* ------------------------------ bounds --------------------------------- *)

\* Number of threads calling into the channel.
NumThreads == 2
\* Number of dex_channel_send calls of a run.
MaxSend == 2
\* Number of dex_channel_receive calls of a run.
MaxRecv == 3
\* Capacities passed to dex_channel_new: 0 .. MaxCapacity.
MaxCapacity == 2
\* The main loop's clock runs over 0 .. MaxTime; deadlines are taken there too.
MaxTime == 3
\* Number of dex_timeout_postpone_until calls of a run.
MaxPostpone == 2
\* Entries of the submission ring (DEFAULT_URING_SIZE, 32 in the code).
UringSize == 2
\* Number of dex_uring_aio_context_queue calls of a run.
MaxRequests == 5

(* --------------------------- program constants ------------------------- *)

\* G_MAXUINT is 2^32 - 1 in the code.  TLC's integers end at 2^31 - 1, and
\* the code only compares capacity with queue.length, so the model takes the
\* largest integer TLC has: no reachable queue length comes near either.
G_MAXUINT == 2147483647

DEX_CHANNEL_STATE_CAN_SEND == 1
DEX_CHANNEL_STATE_CAN_RECEIVE == 2

Threads == 1 .. NumThreads
SendIds == 1 .. MaxSend
RecvIds == 1 .. MaxRecv

\* A NULL pointer (item, promise).
NULL == 0

VARIABLES
  capacity,    \* channel->capacity
  flags,       \* channel->flags, a set of DEX_CHANNEL_STATE_* bits
  queue,       \* channel->queue: items, an item is the number of its send call
  sendq,       \* channel->sendq: items
  recvq,       \* channel->recvq: receive promises
  lock,        \* owner of the channel's lock, 0 when free
  future,      \* future[k]: the future passed to the k-th dex_channel_send
  send,        \* send[k]: the future the k-th dex_channel_send returned
  recv,        \* recv[r]: the promise the r-th dex_channel_receive returned
  chained,     \* chained[r]: the item whose future was chained into recv[r]
  nsend,       \* dex_channel_send calls so far
  nrecv,       \* dex_channel_receive calls so far
  pc,          \* pc[t]: where thread t is
  local,       \* local[t]: item, promise, to_resolve, qlen and the stolen queues
  accepted,    \* history: the items put in queue or sendq, in lock order
  paired,      \* history: the receive promises popped by a pairing, in lock order
  depth,       \* history: depth[k] = length of queue right before k entered it
  parkedAt,    \* history: parkedAt[k] = TRUE when k entered sendq
  freed        \* history: items of queue freed by a close

chan == <<capacity, flags, queue, sendq, recvq>>
hist == <<accepted, paired, depth, parkedAt, freed>>
vars == <<capacity, flags, queue, sendq, recvq, lock, future, send, recv,
          chained, nsend, nrecv, pc, local, accepted, paired, depth,
          parkedAt, freed>>

\* The state of one DexTimeout and of the main context its GSource is
\* attached to.
VARIABLES
  now,         \* the main context's clock (g_get_monotonic_time)
  timeout,     \* the DexTimeout as a future: status, value, error
  source,      \* timeout->source: "GSource" or "NULL"
  ready_time,  \* the ready time of the GSource
  gsource,     \* the GSource in its main context: "attached" or "destroyed"
  spc,         \* where the main loop's thread is in dex_timeout_source_func
  user_ref,    \* TRUE while the caller of dex_timeout_new_* keeps its reference
  fires,       \* history: calls of dex_timeout_source_func so far
  npostpone    \* dex_timeout_postpone_until calls so far

tvars == <<now, timeout, source, ready_time, gsource, spc, user_ref, fires,
           npostpone>>

\* The state of one OS thread that runs a program of test-fiber.c: the
\* test function on the thread's own stack (context g_context, or the
\* scheduler's context) and one DexFiber on its own stack.
VARIABLES
  scenario,    \* the test function that is run
  running,     \* whose code the thread executes: "main", "fiber", or how it ended
  mpc,         \* the statement of the test function that runs next
  fpc,         \* where the fiber's context is: frame and statement
  fiber,       \* the DexFiber made by dex_fiber_new
  tramp,       \* the fiber pointer dex_fiber_start_ has put together
  func_args,   \* the arguments fiber->func was called with
  test_arg,    \* static int test_arg
  rmutex,      \* static GRecMutex rmutex: owner and hold count
  result,      \* the fiber as a future (its result)
  sched        \* the DexFiberScheduler

fvars == <<scenario, running, mpc, fpc, fiber, tramp, func_args, test_arg,
           rmutex, result, sched>>

\* One promise with its listeners, used by the threads of Threads.
VARIABLES
  promise,     \* the DexPromise: status, value, error
  listeners,   \* its listener list, in insertion order
  registered,  \* history: the listeners in the order they were registered,
               \* each with the status the future had then
  invoked,     \* history: the invocations, each with the status it was given
  attempts,    \* history: the completion attempts, in the order they were made
  upc          \* per thread: where it is, the list it detached, its listener

pvars == <<promise, listeners, registered, invoked, attempts, upc>>

\* One DexFiberScheduler on its event-loop thread, the fibers it drives, the
\* futures they await, and one other thread that completes futures.
VARIABLES
  fiber_scheduler,  \* ready, waiting, current, rec_mutex
  fibers,           \* per fiber: state, scheduler, where its code is
  awaited,          \* per future: status and listeners (the awaiting fibers)
  loop,             \* where the event-loop thread is in dispatch
  other,            \* the other thread: where it is, the list it detached
  resumed,          \* history: the fibers dispatch swapped into, in order
  wakes             \* history: per fiber, its WAITING -> READY moves

svars == <<fiber_scheduler, fibers, awaited, loop, other, resumed, wakes>>

\* One call of dex_timeout_new_seconds or dex_timeout_new_msec.
VARIABLES
  armed        \* the call, its argument, the clock it read, the timeout made

nvars == <<armed>>

\* One DexUringAioContext and the requests handed to it.
VARIABLES
  aio_context,  \* ring (sq, kernel, cq) and the overflow list queued
  nqueue,       \* dex_uring_aio_context_queue calls so far; call n passes future n
  prepared,     \* the dex_uring_future_prepare calls in order: future and path
  completed     \* futures completed by dispatch

uvars == <<aio_context, nqueue, prepared, completed>>

\* What the steps of one part of the library leave alone.
notChannel == <<tvars, fvars, pvars, svars, nvars, uvars>>
notTimeout == <<vars, fvars, pvars, svars, nvars, uvars>>
notFiber == <<vars, tvars, pvars, svars, nvars, uvars>>
notFuture == <<vars, tvars, fvars, svars, nvars, uvars>>
notScheduler == <<vars, tvars, fvars, pvars, nvars, uvars>>
notArming == <<vars, tvars, fvars, pvars, svars, uvars>>
notUring == <<vars, tvars, fvars, pvars, svars, nvars>>
allvars == <<vars, tvars, fvars, pvars, svars, nvars, uvars>>

(* ------------------------------ futures -------------------------------- *)

\* status NONE: not created yet.
NoFuture == [status |-> "NONE", value |-> 0, error |-> ""]
Pending == [status |-> "PENDING", value |-> 0, error |-> ""]
Resolved(v) == [status |-> "RESOLVED", value |-> v, error |-> ""]
Rejected(e) == [status |-> "REJECTED", value |-> 0, error |-> e]

IsTerminal(f) == f.status \in {"RESOLVED", "REJECTED"}

\* A completion that overwrites an outcome the future already has.
dex_future_complete_overwrite(f, outcome) == outcome

\* The single PENDING -> terminal transition; a later attempt is discarded.
dex_future_complete(f, outcome) ==
  IF f.status = "PENDING" THEN outcome ELSE f

dex_promise_resolve_uint(p, n) == dex_future_complete(p, Resolved(n))

dex_promise_reject(p, e) == dex_future_complete(p, Rejected(e))

\* dex_future_new_reject
dex_future_new_reject(e) == Rejected(e)

\* dex_future_chain(src, dst): dst takes src's outcome, now if src is terminal.
dex_future_chain(src, dst) ==
  IF IsTerminal(src) THEN dex_future_complete(dst, src) ELSE dst

\* The variables of the promise while another part of the library is run.
FutureUnused ==
  /\ promise = NoFuture
  /\ listeners = <<>>
  /\ registered = <<>>
  /\ invoked = <<>>
  /\ attempts = <<>>
  /\ upc = [t \in Threads |-> [at |-> "idle", detached |-> <<>>, cb |-> 0]]

\* A 64-bit value as four 16-bit limbs, lowest first.
Zero64 == <<0, 0, 0, 0>>

\* dex_uring_aio_backend_create_context: an empty ring, nothing queued.
UringUnused ==
  /\ aio_context = [ring |-> [sq |-> <<>>, kernel |-> {}, cq |-> <<>>],
                    queued |-> <<>>]
  /\ nqueue = 0
  /\ prepared = <<>>
  /\ completed = {}

\* No timeout has been made by a relative constructor.
ArmingUnused ==
  armed = [func |-> "none", arg |-> 0, mono |-> Zero64, deadline |-> Zero64]

\* The variables of the scheduler while another part of the library is run.
SchedulerUnused ==
  /\ fiber_scheduler = [ready |-> <<>>, waiting |-> {}, current |-> 0,
                        rec_mutex |-> [owner |-> "none", count |-> 0]]
  /\ fibers = <<>>
  /\ awaited = <<>>
  /\ loop = "idle"
  /\ other = [at |-> "idle", detached |-> <<>>]
  /\ resumed = <<>>
  /\ wakes = <<>>

\* The variables of the timeout while another part of the library is run.
TimeoutUnused ==
  /\ now = 0
  /\ timeout = NoFuture
  /\ source = "NULL"
  /\ ready_time = 0
  /\ gsource = "destroyed"
  /\ spc = "idle"
  /\ user_ref = FALSE
  /\ fires = 0
  /\ npostpone = 0

\* A 32-bit word: bit 31 and the 31 bits below it.
Zero32 == [top |-> 0, rest |-> 0]
Ones32 == [top |-> 1, rest |-> 2147483647]

\* A 64-bit value (gsize, pointer): its high and its low 32-bit word.
NullPtr == [hi |-> Zero32, lo |-> Zero32]

NoFiber ==
  [ptr |-> NullPtr, func |-> "NULL", func_data |-> "NULL", stack_size |-> 0,
   state |-> "READY", fiber_scheduler |-> "NULL", uc_link |-> "NULL",
   hi |-> Zero32, lo |-> Zero32, freed |-> FALSE]

NoScheduler ==
  [exists |-> FALSE, attached |-> FALSE, ready |-> <<>>, waiting |-> {},
   current |-> "NULL", rec_mutex |-> [owner |-> "none", count |-> 0]]

\* The variables of the fiber test while another part of the library is run.
FiberUnused ==
  /\ scenario = "none"
  /\ running = "main"
  /\ mpc = 1
  /\ fpc = [frame |-> "none", at |-> 0]
  /\ fiber = NoFiber
  /\ tramp = NullPtr
  /\ func_args = <<>>
  /\ test_arg = 0
  /\ rmutex = [owner |-> "none", count |-> 0]
  /\ result = NoFuture
  /\ sched = NoScheduler

(* ------------------------------ channel -------------------------------- *)

NoLocal == [sent |-> NULL, item |-> NULL, promise |-> NULL, to_resolve |-> NULL, qlen |-> 0,
            recvq |-> <<>>, trunc |-> <<>>, queue |-> <<>>, sendq |-> <<>>]

\* A constructor that stores the capacity it is given, 0 included.
dex_channel_new_zero(c) == c

\* Lines 174-175: a capacity of 0 is stored as G_MAXUINT.
dex_channel_new(c) == IF c = 0 THEN G_MAXUINT ELSE c

\* A capacity check that forgets to compare queue.length with capacity.
has_capacity_locked_ignores_queue ==
  Len(sendq) = 0

\* A capacity check that lets queue grow one past capacity.
has_capacity_locked_off_by_one ==
  Len(sendq) = 0 /\ Len(queue) <= capacity

has_capacity_locked ==
  Len(sendq) = 0 /\ Len(queue) < capacity

Init ==
  /\ \E c \in 0 .. MaxCapacity : capacity = dex_channel_new(c)
  /\ flags = {DEX_CHANNEL_STATE_CAN_SEND, DEX_CHANNEL_STATE_CAN_RECEIVE}
  /\ queue = <<>>
  /\ sendq = <<>>
  /\ recvq = <<>>
  /\ lock = 0
  /\ future = [k \in SendIds |-> NoFuture]
  /\ send = [k \in SendIds |-> NoFuture]
  /\ recv = [r \in RecvIds |-> NoFuture]
  /\ chained = [r \in RecvIds |-> NULL]
  /\ nsend = 0
  /\ nrecv = 0
  /\ pc = [t \in Threads |-> "idle"]
  /\ local = [t \in Threads |-> NoLocal]
  /\ accepted = <<>>
  /\ paired = <<>>
  /\ depth = [k \in SendIds |-> 0]
  /\ parkedAt = [k \in SendIds |-> FALSE]
  /\ freed = {}

(* --------------------------- helper operators -------------------------- *)

Min(a, b) == IF a < b THEN a ELSE b

Range(s) == {s[i] : i \in 1 .. Len(s)}

\* guint addition of two queue lengths (they stay far below 2^32).
UIntAdd(a, b) == a + b

\* The error of DEX_ERROR_CHANNEL_CLOSED, whatever its message.
CHANNEL_CLOSED == "CHANNEL_CLOSED"

\* The payload the k-th sent future resolves with, and the error a user
\* rejects it with.
ValueOf(k) == 10 * k
USER_ERROR == "USER_ERROR"

\* The future passed to the k-th dex_channel_send, of status st.
SentFuture(k, st) == IF st = "RESOLVED" THEN Resolved(ValueOf(k)) ELSE Pending

\* Thread t enters the channel: it is idle, and so that the interchangeable
\* idle threads are not told apart, it is the first idle one.
Calls(t) ==
  /\ pc[t] = "idle"
  /\ \A u \in Threads : u < t => pc[u] # "idle"
  /\ \A u \in Threads : pc[u] # "finalized"

SetLocal(t, l) == [local EXCEPT ![t] = l]
Goto(t, label) == [pc EXCEPT ![t] = label]

(* --------------------------- dex_channel_send -------------------------- *)

\* A send that only looks at the receive side.
required_receive_only == {DEX_CHANNEL_STATE_CAN_RECEIVE}

\* Line 265: the flags dex_channel_send needs.
required == {DEX_CHANNEL_STATE_CAN_SEND, DEX_CHANNEL_STATE_CAN_RECEIVE}

\* Lines 265-297: item_new, lock, the flags check, and the push into sendq
\* (then unlock) or into queue (the lock stays held).  st is the status of
\* the future the caller passes.
dex_channel_send(t, st) ==
  /\ Calls(t)
  /\ lock = 0
  /\ nsend < MaxSend
  /\ LET k == nsend + 1 IN
       /\ nsend' = k
       /\ IF (flags \cap required) # required
          THEN \* dex_channel_item_free drops the item's reference to the future
               /\ send' = [send EXCEPT ![k] = dex_future_new_reject(CHANNEL_CLOSED)]
               /\ UNCHANGED <<future, queue, sendq, lock, pc, local, accepted,
                              depth, parkedAt>>
          ELSE IF ~has_capacity_locked
          THEN /\ future' = [future EXCEPT ![k] = SentFuture(k, st)]
               /\ send' = [send EXCEPT ![k] = Pending]
               /\ sendq' = Append(sendq, k)
               /\ accepted' = Append(accepted, k)
               /\ parkedAt' = [parkedAt EXCEPT ![k] = TRUE]
               /\ UNCHANGED <<queue, lock, pc, local, depth>>
          ELSE /\ future' = [future EXCEPT ![k] = SentFuture(k, st)]
               /\ send' = [send EXCEPT ![k] = Pending]
               /\ queue' = Append(queue, k)
               /\ accepted' = Append(accepted, k)
               /\ depth' = [depth EXCEPT ![k] = Len(queue)]
               /\ lock' = t
               /\ local' = SetLocal(t, [NoLocal EXCEPT !.sent = k])
               /\ pc' = Goto(t, "send_resolve")
               /\ UNCHANGED <<sendq, parkedAt>>
  /\ UNCHANGED <<capacity, flags, recvq, recv, chained, nrecv, paired, freed>>
  /\ UNCHANGED notChannel

\* Line 298: dex_promise_resolve_uint (item->send, channel->queue.length),
\* with the lock held.
dex_channel_send_resolve(t) ==
  /\ pc[t] = "send_resolve"
  /\ lock = t
  /\ send' = [send EXCEPT ![local[t].sent] =
                dex_promise_resolve_uint(send[local[t].sent], Len(queue))]
  /\ pc' = Goto(t, "one_receive")
  /\ UNCHANGED <<chan, lock, future, recv, chained, nsend, nrecv, local, hist>>
  /\ UNCHANGED notChannel

(* ----------------- dex_channel_one_receive_and_unlock ------------------ *)

\* A pairing that peeks at the head of recvq and leaves it there.
OneReceiveLocked_keep_receiver(q, sq, rq, cap) ==
  IF Len(q) > 0 /\ Len(rq) > 0
  THEN LET q1 == Tail(q) IN
       IF Len(sq) > 0 /\ Len(q1) < cap
       THEN [queue |-> Append(q1, Head(sq)), sendq |-> Tail(sq), recvq |-> rq,
             item |-> Head(q), promise |-> Head(rq),
             to_resolve |-> Head(sq), qlen |-> Len(q1) + 1]
       ELSE [queue |-> q1, sendq |-> sq, recvq |-> rq,
             item |-> Head(q), promise |-> Head(rq),
             to_resolve |-> NULL, qlen |-> 0]
  ELSE [queue |-> q, sendq |-> sq, recvq |-> rq,
        item |-> NULL, promise |-> NULL, to_resolve |-> NULL, qlen |-> 0]

\* A pairing that reads the queue length before it pushes the advanced item.
OneReceiveLocked_stale_qlen(q, sq, rq, cap) ==
  IF Len(q) > 0 /\ Len(rq) > 0
  THEN LET q1 == Tail(q) IN
       IF Len(sq) > 0 /\ Len(q1) < cap
       THEN [queue |-> Append(q1, Head(sq)), sendq |-> Tail(sq), recvq |-> Tail(rq),
             item |-> Head(q), promise |-> Head(rq),
             to_resolve |-> Head(sq), qlen |-> Len(q1)]
       ELSE [queue |-> q1, sendq |-> sq, recvq |-> Tail(rq),
             item |-> Head(q), promise |-> Head(rq),
             to_resolve |-> NULL, qlen |-> 0]
  ELSE [queue |-> q, sendq |-> sq, recvq |-> rq,
        item |-> NULL, promise |-> NULL, to_resolve |-> NULL, qlen |-> 0]

\* A pairing that takes the newest item of queue instead of the oldest.
OneReceiveLocked_newest(q, sq, rq, cap) ==
  IF Len(q) > 0 /\ Len(rq) > 0
  THEN LET q1 == SubSeq(q, 1, Len(q) - 1) IN
       IF Len(sq) > 0 /\ Len(q1) < cap
       THEN [queue |-> Append(q1, Head(sq)), sendq |-> Tail(sq), recvq |-> Tail(rq),
             item |-> q[Len(q)], promise |-> Head(rq),
             to_resolve |-> Head(sq), qlen |-> Len(q1) + 1]
       ELSE [queue |-> q1, sendq |-> sq, recvq |-> Tail(rq),
             item |-> q[Len(q)], promise |-> Head(rq),
             to_resolve |-> NULL, qlen |-> 0]
  ELSE [queue |-> q, sendq |-> sq, recvq |-> rq,
        item |-> NULL, promise |-> NULL, to_resolve |-> NULL, qlen |-> 0]

\* Lines 206-223, the part under the lock: what the pairing pops and
\* advances, from the three queues q, sq, rq.
\* A pairing step that leaves the last item of queue unpaired.
OneReceiveLocked_skips_single(q, sq, rq, cap) ==
  IF Len(q) > 1 /\ Len(rq) > 0
  THEN LET q1 == Tail(q) IN
       IF Len(sq) > 0 /\ Len(q1) < cap
       THEN [queue |-> Append(q1, Head(sq)), sendq |-> Tail(sq), recvq |-> Tail(rq),
             item |-> Head(q), promise |-> Head(rq),
             to_resolve |-> Head(sq), qlen |-> Len(q1) + 1]
       ELSE [queue |-> q1, sendq |-> sq, recvq |-> Tail(rq),
             item |-> Head(q), promise |-> Head(rq),
             to_resolve |-> NULL, qlen |-> 0]
  ELSE [queue |-> q, sendq |-> sq, recvq |-> rq,
        item |-> NULL, promise |-> NULL, to_resolve |-> NULL, qlen |-> 0]

\* A pairing step that advances the head of sendq into queue and leaves it
\* in sendq as well.
OneReceiveLocked_keeps_sender(q, sq, rq, cap) ==
  IF Len(q) > 0 /\ Len(rq) > 0
  THEN LET q1 == Tail(q) IN
       IF Len(sq) > 0 /\ Len(q1) < cap
       THEN [queue |-> Append(q1, Head(sq)), sendq |-> sq, recvq |-> Tail(rq),
             item |-> Head(q), promise |-> Head(rq),
             to_resolve |-> Head(sq), qlen |-> Len(q1) + 1]
       ELSE [queue |-> q1, sendq |-> sq, recvq |-> Tail(rq),
             item |-> Head(q), promise |-> Head(rq),
             to_resolve |-> NULL, qlen |-> 0]
  ELSE [queue |-> q, sendq |-> sq, recvq |-> rq,
        item |-> NULL, promise |-> NULL, to_resolve |-> NULL, qlen |-> 0]

\* A pairing step that does not advance the head of sendq into queue.
OneReceiveLocked_no_advance(q, sq, rq, cap) ==
  IF Len(q) > 0 /\ Len(rq) > 0
  THEN [queue |-> Tail(q), sendq |-> sq, recvq |-> Tail(rq),
        item |-> Head(q), promise |-> Head(rq),
        to_resolve |-> NULL, qlen |-> 0]
  ELSE [queue |-> q, sendq |-> sq, recvq |-> rq,
        item |-> NULL, promise |-> NULL, to_resolve |-> NULL, qlen |-> 0]

OneReceiveLocked(q, sq, rq, cap) ==
  IF Len(q) > 0 /\ Len(rq) > 0
  THEN LET q1 == Tail(q) IN
       IF Len(sq) > 0 /\ Len(q1) < cap
       THEN [queue |-> Append(q1, Head(sq)), sendq |-> Tail(sq), recvq |-> Tail(rq),
             item |-> Head(q), promise |-> Head(rq),
             to_resolve |-> Head(sq), qlen |-> Len(q1) + 1]
       ELSE [queue |-> q1, sendq |-> sq, recvq |-> Tail(rq),
             item |-> Head(q), promise |-> Head(rq),
             to_resolve |-> NULL, qlen |-> 0]
  ELSE [queue |-> q, sendq |-> sq, recvq |-> rq,
        item |-> NULL, promise |-> NULL, to_resolve |-> NULL, qlen |-> 0]

\* Lines 206-225: the pairing under the lock, then dex_object_unlock.
dex_channel_one_receive_and_unlock(t) ==
  /\ pc[t] = "one_receive"
  /\ lock = t
  /\ LET r == OneReceiveLocked(queue, sendq, recvq, capacity) IN
       /\ queue' = r.queue
       /\ sendq' = r.sendq
       /\ recvq' = r.recvq
       /\ local' = SetLocal(t, [NoLocal EXCEPT !.item = r.item, !.promise = r.promise,
                                               !.to_resolve = r.to_resolve,
                                               !.qlen = r.qlen])
       /\ paired' = IF r.promise # NULL THEN Append(paired, r.promise) ELSE paired
       /\ depth' = IF r.to_resolve # NULL
                   THEN [depth EXCEPT ![r.to_resolve] = Len(r.queue) - 1]
                   ELSE depth
       /\ pc' = Goto(t, IF r.item # NULL THEN "chain" ELSE "idle")
  /\ lock' = 0
  /\ UNCHANGED <<capacity, flags, future, send, recv, chained, nsend, nrecv,
                 accepted, parkedAt, freed>>
  /\ UNCHANGED notChannel

\* Lines 229-234, after the unlock: dex_future_chain (item->future, promise)
\* and dex_channel_item_free (item).
dex_channel_one_receive_chain(t) ==
  /\ pc[t] = "chain"
  /\ LET l == local[t] IN
       /\ recv' = [recv EXCEPT ![l.promise] =
                     dex_future_chain(future[l.item], recv[l.promise])]
       /\ chained' = [chained EXCEPT ![l.promise] = l.item]
       /\ local' = SetLocal(t, [l EXCEPT !.item = NULL, !.promise = NULL])
       /\ pc' = Goto(t, IF l.to_resolve # NULL THEN "resolve" ELSE "idle")
  /\ UNCHANGED <<chan, lock, future, send, nsend, nrecv, hist>>
  /\ UNCHANGED notChannel

\* Lines 236-240, after the unlock: dex_promise_resolve_uint (to_resolve, qlen).
dex_channel_one_receive_resolve(t) ==
  /\ pc[t] = "resolve"
  /\ LET l == local[t] IN
       /\ send' = [send EXCEPT ![l.to_resolve] =
                     dex_promise_resolve_uint(send[l.to_resolve], l.qlen)]
       /\ local' = SetLocal(t, NoLocal)
       /\ pc' = Goto(t, "idle")
  /\ UNCHANGED <<chan, lock, future, recv, chained, nsend, nrecv, hist>>
  /\ UNCHANGED notChannel

(* ------------------------- dex_channel_receive ------------------------- *)

\* A receive that looks at the send side only.
reject_receive_send_only ==
  /\ DEX_CHANNEL_STATE_CAN_SEND \notin flags
  /\ UIntAdd(Len(queue), Len(sendq)) <= Len(recvq)

\* A receive that compares with < where the code has <=.
reject_receive_strict ==
  \/ DEX_CHANNEL_STATE_CAN_RECEIVE \notin flags
  \/ /\ DEX_CHANNEL_STATE_CAN_SEND \notin flags
     /\ UIntAdd(Len(queue), Len(sendq)) < Len(recvq)

\* Lines 316-327: whether dex_channel_receive goes to reject_receive.
reject_receive ==
  \/ DEX_CHANNEL_STATE_CAN_RECEIVE \notin flags
  \/ /\ DEX_CHANNEL_STATE_CAN_SEND \notin flags
     /\ UIntAdd(Len(queue), Len(sendq)) <= Len(recvq)

\* Lines 312-330 and 335-341: promise_new, lock, the two checks, then either
\* unlock and reject the new promise, or push it to recvq (lock still held).
dex_channel_receive(t) ==
  /\ Calls(t)
  /\ lock = 0
  /\ nrecv < MaxRecv
  /\ LET r == nrecv + 1 IN
       /\ nrecv' = r
       /\ IF reject_receive
          THEN /\ recv' = [recv EXCEPT ![r] = dex_promise_reject(Pending, CHANNEL_CLOSED)]
               /\ UNCHANGED <<recvq, lock, pc>>
          ELSE /\ recv' = [recv EXCEPT ![r] = Pending]
               /\ recvq' = Append(recvq, r)
               /\ lock' = t
               /\ pc' = Goto(t, "one_receive")
  /\ UNCHANGED <<capacity, flags, queue, sendq, future, send, chained, nsend,
                 local, hist>>
  /\ UNCHANGED notChannel

(* -------------------- dex_channel_unset_state_flags -------------------- *)

\* A close_send that truncates nothing.
TruncateRecvq_none(rq, pending) == [keep |-> rq, trunc |-> <<>>]

\* Lines 382-383: the receivers that stay in recvq and those moved to trunc
\* (popped from the tail, pushed at trunc's head: their order is kept).
TruncateRecvq(rq, pending) ==
  [keep |-> SubSeq(rq, 1, Min(Len(rq), pending)),
   trunc |-> SubSeq(rq, Min(Len(rq), pending) + 1, Len(rq))]

\* A steal that copies the queue and leaves it in the channel.
steal_queue_copy(q) == [stolen |-> q, left |-> q]

\* Lines 352-360: steal_queue empties the channel's queue and returns what
\* it held.
steal_queue(q) == [stolen |-> q, left |-> <<>>]

\* Lines 373-398, under the lock: clear the flags fl, truncate recvq when the
\* send side closes, steal the three queues when the receive side closes.
(* channel->flags &= ~fl: the bits of fl are cleared, never set. *)
flags_toggle(old, fl) == (old \ fl) \cup (fl \ old)

flags_and_not(old, fl) == old \ fl

dex_channel_unset_state_flags(t, fl) ==
  /\ Calls(t)
  /\ lock = 0
  /\ LET closeSend == DEX_CHANNEL_STATE_CAN_SEND \in fl
         closeRecv == DEX_CHANNEL_STATE_CAN_RECEIVE \in fl
         tr == IF closeSend
               THEN TruncateRecvq(recvq, UIntAdd(Len(sendq), Len(queue)))
               ELSE [keep |-> recvq, trunc |-> <<>>]
         l == [NoLocal EXCEPT !.trunc = tr.trunc,
                              !.queue = IF closeRecv THEN steal_queue(queue).stolen ELSE <<>>,
                              !.sendq = IF closeRecv THEN steal_queue(sendq).stolen ELSE <<>>,
                              !.recvq = IF closeRecv THEN steal_queue(tr.keep).stolen ELSE <<>>]
     IN
       /\ flags' = flags_and_not(flags, fl)
       /\ queue' = IF closeRecv THEN steal_queue(queue).left ELSE queue
       /\ sendq' = IF closeRecv THEN steal_queue(sendq).left ELSE sendq
       /\ recvq' = IF closeRecv THEN steal_queue(tr.keep).left ELSE tr.keep
       /\ local' = SetLocal(t, l)
       /\ pc' = Goto(t, IF l = NoLocal THEN "idle" ELSE "reject")
  /\ UNCHANGED <<capacity, lock, future, send, recv, chained, nsend, nrecv, hist>>
  /\ UNCHANGED notChannel

\* Lines 400-412: every promise of the stolen recvq, then of trunc, is
\* rejected with channel_closed_error.
RejectReceivers(rv, rq, trunc) ==
  [r \in RecvIds |->
     IF r \in Range(rq) \cup Range(trunc)
     THEN dex_promise_reject(rv[r], CHANNEL_CLOSED)
     ELSE rv[r]]

\* A close that forgets the senders parked in sendq.
RejectSenders_none(sn, sq) == sn

\* Lines 421-427: the send promise of every item of the stolen sendq is
\* rejected with channel_closed_error.
RejectSenders(sn, sq) ==
  [k \in SendIds |->
     IF k \in Range(sq)
     THEN dex_promise_reject(sn[k], CHANNEL_CLOSED)
     ELSE sn[k]]

\* Lines 400-427, after the unlock: reject the stolen receivers and the
\* truncated ones, free the items of queue, reject the senders of sendq.
dex_channel_unset_state_flags_reject(t) ==
  /\ pc[t] = "reject"
  /\ LET l == local[t] IN
       /\ recv' = RejectReceivers(recv, l.recvq, l.trunc)
       /\ freed' = freed \cup Range(l.queue)
       /\ send' = RejectSenders(send, l.sendq)
  /\ local' = SetLocal(t, NoLocal)
  /\ pc' = Goto(t, "idle")
  /\ UNCHANGED <<chan, lock, future, chained, nsend, nrecv, accepted, paired,
                 depth, parkedAt>>
  /\ UNCHANGED notChannel

(* dex_channel_finalize: the last reference is dropped, so no thread is inside
   an operation and none can call again.  The whole of
   dex_channel_unset_state_flags runs with the given flags, the locked part
   and the rejections after the unlock, followed by the four assertions. *)
unset_state_flags_whole(t, fl) ==
  LET closeSend == DEX_CHANNEL_STATE_CAN_SEND \in fl
      closeRecv == DEX_CHANNEL_STATE_CAN_RECEIVE \in fl
      tr == IF closeSend
            THEN TruncateRecvq(recvq, UIntAdd(Len(sendq), Len(queue)))
            ELSE [keep |-> recvq, trunc |-> <<>>]
      lqueue == IF closeRecv THEN steal_queue(queue).stolen ELSE <<>>
      lsendq == IF closeRecv THEN steal_queue(sendq).stolen ELSE <<>>
      lrecvq == IF closeRecv THEN steal_queue(tr.keep).stolen ELSE <<>>
  IN
    /\ flags' = flags_and_not(flags, fl)
    /\ queue' = IF closeRecv THEN steal_queue(queue).left ELSE queue
    /\ sendq' = IF closeRecv THEN steal_queue(sendq).left ELSE sendq
    /\ recvq' = IF closeRecv THEN steal_queue(tr.keep).left ELSE tr.keep
    /\ recv' = RejectReceivers(recv, lrecvq, tr.trunc)
    /\ freed' = freed \cup Range(lqueue)
    /\ send' = RejectSenders(send, lsendq)
    /\ pc' = Goto(t, "finalized")
    /\ UNCHANGED <<capacity, lock, future, chained, nsend, nrecv, local,
                   accepted, paired, depth, parkedAt>>
    /\ UNCHANGED notChannel

dex_channel_finalize_send_only(t) ==
  /\ Calls(t)
  /\ \A u \in Threads : pc[u] = "idle"
  /\ lock = 0
  /\ unset_state_flags_whole(t, {DEX_CHANNEL_STATE_CAN_SEND})

dex_channel_finalize(t) ==
  /\ Calls(t)
  /\ \A u \in Threads : pc[u] = "idle"
  /\ lock = 0
  /\ unset_state_flags_whole(t, {DEX_CHANNEL_STATE_CAN_SEND,
                                 DEX_CHANNEL_STATE_CAN_RECEIVE})

\* Lines 430-436.
dex_channel_close_send(t) ==
  dex_channel_unset_state_flags(t, {DEX_CHANNEL_STATE_CAN_SEND})

\* Lines 438-444.
\* A close of the receive side that closes the send side with it.
dex_channel_close_receive_both(t) ==
  dex_channel_unset_state_flags(t, {DEX_CHANNEL_STATE_CAN_SEND,
                                    DEX_CHANNEL_STATE_CAN_RECEIVE})

dex_channel_close_receive(t) ==
  dex_channel_unset_state_flags(t, {DEX_CHANNEL_STATE_CAN_RECEIVE})

\* Lines 446-458: what dex_channel_can_send returns, read under the lock.
dex_channel_can_send == DEX_CHANNEL_STATE_CAN_SEND \in flags

(* ------------------------- the sent futures ---------------------------- *)

\* The owner of the k-th sent future completes it; every promise it was
\* chained into takes the same outcome.
complete_sent_future(k, outcome) ==
  /\ k \in Range(accepted)
  /\ future[k].status = "PENDING"
  /\ future' = [future EXCEPT ![k] = dex_future_complete(future[k], outcome)]
  /\ recv' = [r \in RecvIds |->
                IF chained[r] = k THEN dex_future_complete(recv[r], outcome)
                ELSE recv[r]]
  /\ UNCHANGED <<chan, lock, send, chained, nsend, nrecv, pc, local, hist>>
  /\ UNCHANGED notChannel

(* ---------------------------- specification ---------------------------- *)

Next ==
  \/ \E t \in Threads, st \in {"PENDING", "RESOLVED"} : dex_channel_send(t, st)
  \/ \E t \in Threads : dex_channel_send_resolve(t)
  \/ \E t \in Threads : dex_channel_one_receive_and_unlock(t)
  \/ \E t \in Threads : dex_channel_one_receive_chain(t)
  \/ \E t \in Threads : dex_channel_one_receive_resolve(t)
  \/ \E t \in Threads : dex_channel_receive(t)
  \/ \E t \in Threads : dex_channel_close_send(t)
  \/ \E t \in Threads : dex_channel_close_receive(t)
  \/ \E t \in Threads : dex_channel_unset_state_flags_reject(t)
  \/ \E t \in Threads : dex_channel_finalize(t)
  \/ \E k \in SendIds :
       \E outcome \in {Resolved(ValueOf(k)), Rejected(USER_ERROR)} :
         complete_sent_future(k, outcome)

\* Only the channel is run.
InitChannel == Init /\ TimeoutUnused /\ FiberUnused /\ FutureUnused
  /\ SchedulerUnused /\ ArmingUnused /\ UringUnused

Spec == InitChannel /\ [][Next]_allvars

(* ------------------------------- claims ------------------------------- *)

\* No thread is inside a channel function.
Quiescent == \A t \in Threads : pc[t] = "idle"

(* The channel has been finalized: its last reference is gone. *)
Finalized == \E t \in Threads : pc[t] = "finalized"

\* The receive promises the future of item k was chained into.
ReceiversOf(k) == {r \in RecvIds : chained[r] = k}

\* C1: pairing is FIFO on both sides.  The j-th receive promise popped by a
\* pairing is chained to the future of the j-th accepted send (or its thread
\* is about to chain exactly that one), the paired receivers are in the
\* order of their receive calls, and while the receive side is open the
\* items still held are, queue first and then sendq, the accepted items not
\* yet paired, in the order they were accepted.
C1_FifoPairing ==
  /\ Len(paired) <= Len(accepted)
  /\ \A j \in 1 .. Len(paired) :
       \/ chained[paired[j]] = accepted[j]
       \/ /\ chained[paired[j]] = NULL
          /\ \E t \in Threads : /\ pc[t] = "chain"
                                /\ local[t].promise = paired[j]
                                /\ local[t].item = accepted[j]
  /\ \A i, j \in 1 .. Len(paired) : i < j => paired[i] < paired[j]
  /\ \A r \in RecvIds : chained[r] # NULL => r \in Range(paired)
  /\ DEX_CHANNEL_STATE_CAN_RECEIVE \in flags =>
       queue \o sendq = SubSeq(accepted, Len(paired) + 1, Len(accepted))

\* Two sends, the second parked in sendq, then delivered in order to two
\* receives.
C1_Witness ==
  /\ Len(paired) = 2
  /\ Len(accepted) = 2
  /\ parkedAt[accepted[2]]
  /\ chained[paired[1]] = accepted[1]
  /\ chained[paired[2]] = accepted[2]

\* C2 as claimed: once both sides are closed and every call has returned,
\* each accepted item was either delivered to exactly one receive promise or
\* had its send promise rejected with CHANNEL_CLOSED, never both, never
\* neither.
C2_DeliveredOrRejected ==
  (flags = {} /\ Quiescent) =>
    \A k \in Range(accepted) :
      /\ Cardinality(ReceiversOf(k)) <= 1
      /\ (Cardinality(ReceiversOf(k)) = 1) # (send[k] = Rejected(CHANNEL_CLOSED))

\* The number of the given conditions that hold.
CountTrue(a, b, c) ==
  (IF a THEN 1 ELSE 0) + (IF b THEN 1 ELSE 0) + (IF c THEN 1 ELSE 0)

\* C2 amended: once both sides are closed and every call has returned, each
\* accepted item met exactly one of three ends: it was delivered to exactly
\* one receive promise; or it was in sendq at close_receive and its send
\* promise is rejected with CHANNEL_CLOSED; or it was in queue at
\* close_receive and was freed, its send promise staying resolved and no
\* receive promise ever getting it.
C2_DeliveredRejectedOrFreed ==
  (flags = {} /\ Quiescent) =>
    \A k \in Range(accepted) :
      /\ Cardinality(ReceiversOf(k)) <= 1
      /\ CountTrue(Cardinality(ReceiversOf(k)) = 1,
                   send[k] = Rejected(CHANNEL_CLOSED),
                   k \in freed) = 1
      /\ k \in freed => send[k].status = "RESOLVED"

\* Both sides closed after a close_receive that found one item in queue
\* (freed) and one in sendq (rejected).
C2_Witness ==
  /\ flags = {}
  /\ Quiescent
  /\ \E k \in Range(accepted) : send[k] = Rejected(CHANNEL_CLOSED)
  /\ \E k \in Range(accepted) : k \in freed /\ ReceiversOf(k) = {}

\* C3: queue never holds more than capacity items.
C3_QueueWithinCapacity == Len(queue) <= capacity

\* A pairing has just advanced a parked sender into a queue that is full again.
C3_Witness ==
  /\ Len(queue) = capacity
  /\ \E t \in Threads : local[t].to_resolve # NULL /\ local[t].to_resolve \in Range(queue)

\* A step in which dex_channel_send is called (its locked part runs).
SendCall == nsend' = nsend + 1

\* C4: with CAN_SEND clear, a dex_channel_send returns a future already
\* rejected with CHANNEL_CLOSED and leaves queue, sendq and recvq as they
\* were; and no step at all accepts an item or makes
\* queue.length + sendq.length grow.
C4_ClosedSendRejects ==
  [][DEX_CHANNEL_STATE_CAN_SEND \notin flags =>
       /\ SendCall => /\ send'[nsend'] = Rejected(CHANNEL_CLOSED)
                      /\ queue' = queue
                      /\ sendq' = sendq
                      /\ recvq' = recvq
       /\ accepted' = accepted
       /\ Len(queue') + Len(sendq') <= Len(queue) + Len(sendq)]_vars

\* The send side alone is closed and the last send was turned away.
C4_Witness ==
  /\ flags = {DEX_CHANNEL_STATE_CAN_RECEIVE}
  /\ nsend >= 1
  /\ nsend \notin Range(accepted)
  /\ send[nsend] = Rejected(CHANNEL_CLOSED)

\* C5: a resolved send promise holds the length queue had right after its
\* item was appended: one more than the length before, at least 1 and at
\* most capacity.
C5_ResolvedWithQueueLength ==
  \A k \in Range(accepted) :
    send[k].status = "RESOLVED" =>
      /\ send[k].value = depth[k] + 1
      /\ send[k].value >= 1
      /\ send[k].value <= capacity
      /\ send[k].value > depth[k]

\* A sender that was parked in sendq has been advanced and resolved, next to
\* one resolved directly by send.
C5_Witness ==
  /\ \E k \in Range(accepted) : parkedAt[k] /\ send[k].status = "RESOLVED"
  /\ \E k \in Range(accepted) : ~parkedAt[k] /\ send[k].status = "RESOLVED"

\* C6: backpressure.  A send accepted while queue is full or sendq is not
\* empty goes to the tail of sendq with its promise PENDING.  A parked item
\* leaves sendq, while the receive side stays open, only as the head of
\* sendq in the pairing of a dex_channel_receive that pops an item of queue,
\* and then goes to the tail of queue.  Its promise leaves PENDING for
\* RESOLVED only in the resolve step of that pairing, with the queue length
\* right after the move.
C6_Backpressure ==
  [][/\ (/\ SendCall
         /\ flags = {DEX_CHANNEL_STATE_CAN_SEND, DEX_CHANNEL_STATE_CAN_RECEIVE}
         /\ (Len(queue) >= capacity \/ Len(sendq) > 0)) =>
          /\ sendq' = Append(sendq, nsend')
          /\ queue' = queue
          /\ send'[nsend'] = Pending
     /\ \A k \in Range(sendq) :
          (k \notin Range(sendq') /\ DEX_CHANNEL_STATE_CAN_RECEIVE \in flags') =>
             /\ k = Head(sendq)
             /\ sendq' = Tail(sendq)
             /\ queue' = Append(Tail(queue), k)
             /\ Len(paired') = Len(paired) + 1
             /\ send'[k] = Pending
             /\ \E t \in Threads : /\ pc[t] = "one_receive"
                                   /\ local[t].sent = NULL
                                   /\ local'[t].to_resolve = k
                                   /\ local'[t].item = Head(queue)
     /\ \A k \in SendIds :
          (parkedAt[k] /\ send[k].status = "PENDING" /\ send'[k].status = "RESOLVED") =>
             /\ k \notin Range(sendq)
             /\ send'[k].value = depth[k] + 1
             /\ \E t \in Threads : pc[t] = "resolve" /\ local[t].to_resolve = k]_vars

\* Capacity 1: the first send resolved with 1, the second was parked, and one
\* receive resolved the second with 1.
C6_Witness ==
  /\ capacity = 1
  /\ nrecv = 1
  /\ accepted = <<1, 2>>
  /\ send[1] = Resolved(1)
  /\ parkedAt[2]
  /\ send[2] = Resolved(1)

\* The outcome a promise chained to the future f must show.
OutcomeOf(f) == IF IsTerminal(f) THEN f ELSE Pending

\* C7: a receive promise the future of item k was chained into is PENDING
\* while that future is PENDING, and otherwise has the future's own outcome:
\* RESOLVED with its value or REJECTED with its error, whether the future
\* completed before the chaining or after it.
C7_ReceiverTakesSentOutcome ==
  \A r \in RecvIds :
    chained[r] # NULL => recv[r] = OutcomeOf(future[chained[r]])

\* One paired receiver resolved with the payload of its item, another one
\* paired and still waiting for a pending future.
C7_Witness ==
  \E r1, r2 \in RecvIds :
    /\ chained[r1] # NULL
    /\ recv[r1] = Resolved(ValueOf(chained[r1]))
    /\ chained[r2] # NULL
    /\ future[chained[r2]] = Pending
    /\ recv[r2] = Pending

\* A step of dex_channel_close_send that closes the send side.
CloseSendStep ==
  /\ DEX_CHANNEL_STATE_CAN_SEND \in flags
  /\ flags' = flags \ {DEX_CHANNEL_STATE_CAN_SEND}
  /\ ~Finalized'

\* Thread t runs the rejections of a close and returns.
RejectStep(t) == pc[t] = "reject" /\ pc'[t] = "idle"

\* C8: dex_channel_close_send clears CAN_SEND, keeps the first
\* queue.length + sendq.length receivers of recvq and moves the others, the
\* tail of recvq, to trunc; its rejections reject every receiver of trunc
\* with CHANNEL_CLOSED and, for a close_send, touch no other receive promise.
\* Once CAN_SEND is clear, recvq.length <= queue.length + sendq.length in
\* every state.
C8_CloseSendTruncates ==
  /\ [](DEX_CHANNEL_STATE_CAN_SEND \notin flags =>
          Len(recvq) <= Len(queue) + Len(sendq))
  /\ [][CloseSendStep =>
          LET n == Min(Len(recvq), Len(queue) + Len(sendq)) IN
            /\ recvq' = SubSeq(recvq, 1, n)
            /\ queue' = queue
            /\ sendq' = sendq
            /\ \E t \in Threads :
                 /\ pc[t] = "idle"
                 /\ local'[t].trunc = SubSeq(recvq, n + 1, Len(recvq))
                 /\ local'[t].recvq = <<>>
                 /\ local'[t].trunc # <<>> => pc'[t] = "reject"]_vars
  /\ [][\A t \in Threads : RejectStep(t) =>
          /\ \A r \in Range(local[t].trunc) :
               recv[r] = Pending /\ recv'[r] = Rejected(CHANNEL_CLOSED)
          /\ \A r \in RecvIds :
               r \notin Range(local[t].trunc) \cup Range(local[t].recvq) =>
                 recv'[r] = recv[r]]_vars

\* close_send has just found a receiver parked on an empty channel and moved
\* it to trunc, to be rejected.
C8_Witness ==
  /\ flags = {DEX_CHANNEL_STATE_CAN_RECEIVE}
  /\ queue = <<>>
  /\ \E t \in Threads : /\ pc[t] = "reject"
                        /\ local[t].trunc # <<>>
                        /\ recv[local[t].trunc[1]] = Pending

\* A step in which dex_channel_receive is called (its locked part runs).
ReceiveCall == nrecv' = nrecv + 1

\* C9: with the send side closed and the receive side open, a
\* dex_channel_receive returns a promise rejected with CHANNEL_CLOSED exactly
\* when queue.length + sendq.length <= recvq.length, and by then every
\* accepted item has been paired; otherwise the promise is PENDING at the
\* tail of recvq, and every pairing then hands the oldest accepted item not
\* yet paired to the receiver it pops.
C9_ReceiveAfterCloseSend ==
  /\ [][(ReceiveCall /\ flags = {DEX_CHANNEL_STATE_CAN_RECEIVE}) =>
          IF Len(queue) + Len(sendq) <= Len(recvq)
          THEN /\ recv'[nrecv'] = Rejected(CHANNEL_CLOSED)
               /\ recvq' = recvq
               /\ Len(paired) = Len(accepted)
          ELSE /\ recv'[nrecv'] = Pending
               /\ recvq' = Append(recvq, nrecv')
               /\ \E t \in Threads : pc'[t] = "one_receive" /\ lock' = t]_vars
  /\ [][(flags = {DEX_CHANNEL_STATE_CAN_RECEIVE} /\ paired' # paired) =>
          \E t \in Threads :
            /\ local'[t].promise = paired'[Len(paired')]
            /\ local'[t].item = accepted[Len(paired')]
            /\ local'[t].item = Head(queue)]_vars

\* After close_send a receive holds the lock and is about to be served from
\* a channel that still has an item in queue and one in sendq.
C9_Witness ==
  /\ flags = {DEX_CHANNEL_STATE_CAN_RECEIVE}
  /\ Len(queue) > 0
  /\ Len(sendq) > 0
  /\ \E t \in Threads : /\ pc[t] = "one_receive"
                        /\ lock = t
                        /\ local[t].sent = NULL
                        /\ Len(recvq) > 0

\* A step of dex_channel_close_receive that closes the receive side.
CloseReceiveStep ==
  /\ DEX_CHANNEL_STATE_CAN_RECEIVE \in flags
  /\ flags' = flags \ {DEX_CHANNEL_STATE_CAN_RECEIVE}
  /\ ~Finalized'

\* C10: dex_channel_close_receive clears CAN_RECEIVE and takes everything out
\* of queue, sendq and recvq; its rejections reject with CHANNEL_CLOSED every
\* receive promise that was in recvq and the send promise of every item that
\* was in sendq.  With CAN_RECEIVE clear the three queues are empty in every
\* state, and once every call has returned no accepted send promise is
\* PENDING and a receive promise is PENDING only if it was paired and waits
\* for its item's future.
C10_CloseReceiveDrains ==
  /\ [](DEX_CHANNEL_STATE_CAN_RECEIVE \notin flags =>
          queue = <<>> /\ sendq = <<>> /\ recvq = <<>>)
  /\ [][CloseReceiveStep =>
          \E t \in Threads :
            /\ pc[t] = "idle"
            /\ local'[t].queue = queue
            /\ local'[t].sendq = sendq
            /\ local'[t].recvq = recvq
            /\ local'[t] # NoLocal => pc'[t] = "reject"]_vars
  /\ [][\A t \in Threads : RejectStep(t) =>
          /\ \A r \in Range(local[t].recvq) :
               recv[r] = Pending /\ recv'[r] = Rejected(CHANNEL_CLOSED)
          /\ \A k \in Range(local[t].sendq) :
               send[k] = Pending /\ send'[k] = Rejected(CHANNEL_CLOSED)]_vars
  /\ []((DEX_CHANNEL_STATE_CAN_RECEIVE \notin flags /\ Quiescent) =>
          /\ \A k \in Range(accepted) : send[k].status # "PENDING"
          /\ \A r \in RecvIds : recv[r].status = "PENDING" => chained[r] # NULL)

\* close_receive has returned after rejecting a sender that was parked in
\* sendq.
C10_Witness ==
  /\ DEX_CHANNEL_STATE_CAN_RECEIVE \notin flags
  /\ Quiescent
  /\ \E k \in Range(accepted) : parkedAt[k] /\ send[k] = Rejected(CHANNEL_CLOSED)

\* C11: a dex_channel_receive called while CAN_RECEIVE is clear returns a
\* promise already rejected with CHANNEL_CLOSED and changes none of queue,
\* sendq and recvq; it neither keeps the lock nor leaves work behind.
C11_ClosedReceiveRejects ==
  [][(ReceiveCall /\ DEX_CHANNEL_STATE_CAN_RECEIVE \notin flags) =>
        /\ recv'[nrecv'] = Rejected(CHANNEL_CLOSED)
        /\ queue' = queue
        /\ sendq' = sendq
        /\ recvq' = recvq
        /\ lock' = 0
        /\ pc' = pc]_vars

\* close_receive has stolen the first receive promise and not yet rejected
\* it, the send side is open, and a second receive, called after the close,
\* is already rejected.
C11_Witness ==
  /\ flags = {DEX_CHANNEL_STATE_CAN_SEND}
  /\ \E t \in Threads : pc[t] = "reject" /\ local[t].recvq = <<1>>
  /\ recv[1] = Pending
  /\ recv[2] = Rejected(CHANNEL_CLOSED)

\* C12 as claimed: no step completes a send or receive promise while a
\* thread holds the channel's lock.
C12_NoCompletionUnderLock ==
  [][((\E k \in SendIds : send[k] = Pending /\ send'[k] # Pending)
       \/ (\E r \in RecvIds : recv[r] = Pending /\ recv'[r] # Pending))
     => lock = 0]_vars

\* C13: in a channel created with capacity 0 no send is ever parked: sendq
\* is empty in every state, no accepted item went through sendq, and the
\* send promise of an accepted item is resolved by the time its
\* dex_channel_send returns (it is PENDING only while the sending thread is
\* still inside the call, about to resolve it).
C13_ZeroCapacityUnlimited ==
  capacity \notin 1 .. MaxCapacity =>
    /\ sendq = <<>>
    /\ \A k \in Range(accepted) :
         /\ ~parkedAt[k]
         /\ send[k].status # "REJECTED"
         /\ send[k] = Pending =>
              \E t \in Threads : pc[t] = "send_resolve" /\ local[t].sent = k

\* A channel created with capacity 0 holds MaxSend items in queue, every one
\* of them accepted directly and its send promise resolved, with both sides
\* open and no receive called.
C13_Witness ==
  /\ capacity \notin 1 .. MaxCapacity
  /\ flags = {DEX_CHANNEL_STATE_CAN_SEND, DEX_CHANNEL_STATE_CAN_RECEIVE}
  /\ Len(queue) = MaxSend
  /\ nrecv = 0
  /\ Quiescent
  /\ \A k \in Range(queue) : send[k].status = "RESOLVED"

\* C28: whenever no operation holds the channel's lock, queue and recvq are
\* not both non-empty: the single pairing done by one send or one receive
\* leaves nothing the pairing loop of the specification would still pair.
C28_NothingLeftToPair ==
  lock = 0 => (queue = <<>> \/ recvq = <<>>)

\* Two items were queued and one receive has paired the first: an item is
\* left in queue, no receiver is left in recvq, and no thread is inside an
\* operation.
C28_Witness ==
  /\ lock = 0
  /\ Quiescent
  /\ paired = <<1>>
  /\ Len(queue) = 1
  /\ recvq = <<>>

\* C29: sendq is non-empty only if queue is full.
C29_ParkedOnlyWhenFull ==
  Len(sendq) > 0 => Len(queue) = capacity

\* A send has parked its item behind a queue that holds capacity items.
C29_Witness ==
  /\ Len(sendq) = 1
  /\ Len(queue) = capacity
  /\ parkedAt[Head(sendq)]
  /\ send[Head(sendq)] = Pending
  /\ Quiescent

\* C30: a send is rejected with CHANNEL_CLOSED and adds nothing to queue or
\* sendq whenever one of the two flags is clear; and the step that clears
\* CAN_RECEIVE (dex_channel_close_receive) leaves what dex_channel_can_send
\* returns as it was, so that after dex_channel_close_receive alone it
\* still returns TRUE on a channel whose every send is rejected.
C30_SendRejectedAfterCloseReceive ==
  [][/\ (SendCall /\ flags # {DEX_CHANNEL_STATE_CAN_SEND,
                              DEX_CHANNEL_STATE_CAN_RECEIVE}) =>
          /\ send'[nsend'] = Rejected(CHANNEL_CLOSED)
          /\ queue' = queue
          /\ sendq' = sendq
          /\ accepted' = accepted
     /\ (/\ DEX_CHANNEL_STATE_CAN_RECEIVE \in flags
         /\ DEX_CHANNEL_STATE_CAN_RECEIVE \notin flags'
         /\ ~Finalized') =>
          dex_channel_can_send' = dex_channel_can_send]_vars

\* Only the receive side was closed; a send made after that was rejected
\* and is in neither queue, while dex_channel_can_send returns TRUE.
C30_Witness ==
  /\ flags = {DEX_CHANNEL_STATE_CAN_SEND}
  /\ dex_channel_can_send
  /\ nsend >= 1
  /\ send[nsend] = Rejected(CHANNEL_CLOSED)
  /\ nsend \notin Range(accepted)
  /\ queue = <<>>
  /\ sendq = <<>>

\* The send promises thread t is still going to complete, and how.
ToResolve(t) ==
  (IF pc[t] = "send_resolve" THEN {local[t].sent} ELSE {})
    \cup (IF pc[t] \in {"chain", "resolve"} /\ local[t].to_resolve # NULL
           THEN {local[t].to_resolve} ELSE {})

ToRejectSend(t) == IF pc[t] = "reject" THEN Range(local[t].sendq) ELSE {}

\* The receive promises thread t is still going to complete, and how.
ToChain(t) ==
  IF pc[t] = "chain" /\ local[t].promise # NULL THEN {local[t].promise}
  ELSE {}

ToRejectRecv(t) ==
  IF pc[t] = "reject" THEN Range(local[t].recvq) \cup Range(local[t].trunc)
  ELSE {}

\* C31: the channel completes each send promise and each receive promise at
\* most once.  A promise a thread is about to resolve, chain or reject is
\* still PENDING (a receive promise also not chained yet) and no other
\* completion of it is outstanding on any thread; a rejected send promise
\* never entered queue, and a rejected receive promise is chained to no
\* item.
C31_CompletedAtMostOnce ==
  /\ \A t \in Threads :
        /\ \A k \in ToResolve(t) \cup ToRejectSend(t) : send[k] = Pending
        /\ \A r \in ToChain(t) \cup ToRejectRecv(t) :
              recv[r] = Pending /\ chained[r] = NULL
        /\ ToResolve(t) \cap ToRejectSend(t) = {}
        /\ ToChain(t) \cap ToRejectRecv(t) = {}
        /\ \A u \in Threads \ {t} :
              /\ (ToResolve(t) \cup ToRejectSend(t))
                    \cap (ToResolve(u) \cup ToRejectSend(u)) = {}
              /\ (ToChain(t) \cup ToRejectRecv(t))
                    \cap (ToChain(u) \cup ToRejectRecv(u)) = {}
  /\ \A k \in SendIds :
        (send[k] = Rejected(CHANNEL_CLOSED) /\ k \in Range(accepted)) =>
           /\ parkedAt[k]
           /\ k \notin Range(queue)
           /\ k \notin freed
           /\ \A r \in RecvIds : chained[r] # k
           /\ \A t \in Threads : k \notin Range(local[t].queue)
  /\ \A r \in RecvIds :
        chained[r] # NULL => \A t \in Threads : r \notin ToRejectRecv(t)

\* A pairing has advanced a parked sender into queue and unlocked; before
\* its deferred resolution, dex_channel_close_receive on another thread has
\* stolen queue with that sender's item in it.
C31_Witness ==
  \E t, u \in Threads :
     /\ t # u
     /\ pc[t] \in {"chain", "resolve"}
     /\ local[t].to_resolve # NULL
     /\ send[local[t].to_resolve] = Pending
     /\ pc[u] = "reject"
     /\ local[t].to_resolve \in Range(local[u].queue)

(* C32: the two state flags are both set at construction and are only ever
   cleared: no step sets a flag.  Closing a side that is already closed clears
   nothing, truncates no receiver, steals no queue and so rejects nothing:
   with CAN_SEND clear the receivers never outnumber the pending items, and
   with CAN_RECEIVE clear the three queues are already empty. *)
C32_FlagsOnlyCleared ==
  /\ [][flags' \subseteq flags]_vars
  /\ [](DEX_CHANNEL_STATE_CAN_SEND \notin flags =>
         LET tr == TruncateRecvq(recvq, UIntAdd(Len(sendq), Len(queue)))
         IN /\ tr.trunc = <<>>
            /\ tr.keep = recvq
            /\ flags_and_not(flags, {DEX_CHANNEL_STATE_CAN_SEND}) = flags)
  /\ [](DEX_CHANNEL_STATE_CAN_RECEIVE \notin flags =>
         /\ steal_queue(queue).stolen = <<>>
         /\ steal_queue(sendq).stolen = <<>>
         /\ steal_queue(recvq).stolen = <<>>
         /\ flags_and_not(flags, {DEX_CHANNEL_STATE_CAN_RECEIVE}) = flags)

C32_Witness ==
  /\ flags = {}
  /\ Quiescent
  /\ nsend > 0
  /\ \E k \in DOMAIN send : send[k] = Rejected(CHANNEL_CLOSED)

(* C33: dex_channel_finalize's assertions hold whatever the channel held when
   its last reference was dropped: once finalized, queue, sendq and recvq are
   empty and no flag is set, and the finalizing step rejects with
   CHANNEL_CLOSED every promise that was still parked in sendq or recvq. *)
C33_FinalizeAssertions ==
  /\ [](Finalized =>
          /\ Len(queue) = 0
          /\ Len(sendq) = 0
          /\ Len(recvq) = 0
          /\ flags = {})
  /\ [][Finalized' /\ ~Finalized =>
          /\ \A k \in Range(sendq) : send'[k] = Rejected(CHANNEL_CLOSED)
          /\ \A r \in Range(recvq) : recv'[r] = Rejected(CHANNEL_CLOSED)]_vars

C33_Witness ==
  /\ Finalized
  /\ \E k \in SendIds : parkedAt[k] /\ send[k] = Rejected(CHANNEL_CLOSED)
  /\ freed # {}

\* The variables of the channel while another part of the library is run.
ChannelUnused == Init /\ capacity = dex_channel_new(0)

(* ============================== DexTimeout ============================= *)
(* dex-timeout.c: a future with a GSource attached to the default main      *)
(* context.  The main loop's thread runs dex_timeout_source_func once the   *)
(* clock has reached the source's ready time; any thread holding a          *)
(* reference calls dex_timeout_postpone_until or drops its reference.  What *)
(* a function does between dex_object_lock and dex_object_unlock is one     *)
(* step.                                                                    *)

G_SOURCE_REMOVE == FALSE
G_SOURCE_CONTINUE == TRUE
G_IO_ERROR_TIMED_OUT == "G_IO_ERROR_TIMED_OUT"

\* The deadlines a caller passes.
Deadlines == 0 .. MaxTime

\* Lines 102-127: the timeout is PENDING, its source exists, is attached and
\* has the deadline as its ready time.
dex_timeout_new_deadline(deadline) ==
  [timeout |-> Pending, source |-> "GSource", ready_time |-> deadline,
   gsource |-> "attached"]

InitTimeout ==
  /\ now = 0
  /\ \E d \in Deadlines :
       LET t == dex_timeout_new_deadline(d) IN
         /\ timeout = t.timeout
         /\ source = t.source
         /\ ready_time = t.ready_time
         /\ gsource = t.gsource
  /\ spc = "idle"
  /\ user_ref = TRUE
  /\ fires = 0
  /\ npostpone = 0

\* The main context's clock moves on.
Tick ==
  /\ now < MaxTime
  /\ now' = now + 1
  /\ UNCHANGED <<timeout, source, ready_time, gsource, spc, user_ref, fires,
                 npostpone>>
  /\ UNCHANGED notTimeout

\* Lines 42-54: dex_timeout_finalize destroys a source that is still there.
dex_timeout_finalize(src, gs) ==
  IF src # "NULL" THEN [source |-> "NULL", gsource |-> "destroyed"]
                  ELSE [source |-> src, gsource |-> gs]

\* Lines 76-84: the main loop dispatches the attached source once its ready
\* time is reached; dex_weak_ref_get gives the timeout if it is still alive
\* (here: the caller's reference is the only other one).
dex_timeout_source_func ==
  /\ spc = "idle"
  /\ gsource = "attached"
  /\ ready_time <= now
  /\ fires' = fires + 1
  /\ spc' = IF user_ref THEN "complete" ELSE "return"
  /\ UNCHANGED <<now, timeout, source, ready_time, gsource, user_ref, npostpone>>
  /\ UNCHANGED notTimeout

\* Lines 86-90: dex_future_complete with the timed-out error, no lock held.
dex_timeout_source_func_complete ==
  /\ spc = "complete"
  /\ timeout' = dex_future_complete(timeout, Rejected(G_IO_ERROR_TIMED_OUT))
  /\ spc' = "clear"
  /\ UNCHANGED <<now, source, ready_time, gsource, user_ref, fires, npostpone>>
  /\ UNCHANGED notTimeout

\* Lines 92-94: under the object's lock, timeout->source is cleared.
dex_timeout_source_func_clear ==
  /\ spc = "clear"
  /\ source' = "NULL"
  /\ spc' = "unref"
  /\ UNCHANGED <<now, timeout, ready_time, gsource, user_ref, fires, npostpone>>
  /\ UNCHANGED notTimeout

\* A source function that asks to be called again.
dex_timeout_source_func_return_continue == G_SOURCE_CONTINUE

\* Line 99: what the source function returns to the main loop.
dex_timeout_source_func_return == G_SOURCE_REMOVE

\* Lines 96 and 99: dex_unref drops the reference taken from the weak
\* reference (finalizing the timeout if it was the last one), and the main
\* loop destroys a source whose function returned G_SOURCE_REMOVE.
dex_timeout_source_func_unref ==
  /\ spc \in {"unref", "return"}
  /\ LET f == IF spc = "unref" /\ ~user_ref
              THEN dex_timeout_finalize(source, gsource)
              ELSE [source |-> source, gsource |-> gsource] IN
       /\ source' = f.source
       /\ gsource' = IF dex_timeout_source_func_return = G_SOURCE_REMOVE
                     THEN "destroyed" ELSE f.gsource
  /\ spc' = "idle"
  /\ UNCHANGED <<now, timeout, ready_time, user_ref, fires, npostpone>>
  /\ UNCHANGED notTimeout

\* Lines 149-159, one locked section: the source, if the timeout still has
\* one, gets the new ready time.
dex_timeout_postpone_until(deadline) ==
  /\ user_ref
  /\ npostpone < MaxPostpone
  /\ npostpone' = npostpone + 1
  /\ ready_time' = IF source # "NULL" THEN deadline ELSE ready_time
  /\ UNCHANGED <<now, timeout, source, gsource, spc, user_ref, fires>>
  /\ UNCHANGED notTimeout

\* The caller drops its reference; the timeout is finalized unless the
\* source function holds the reference it took at line 80.
dex_unref ==
  /\ user_ref
  /\ user_ref' = FALSE
  /\ LET f == IF spc \in {"complete", "clear", "unref"}
              THEN [source |-> source, gsource |-> gsource]
              ELSE dex_timeout_finalize(source, gsource) IN
       /\ source' = f.source
       /\ gsource' = f.gsource
  /\ UNCHANGED <<now, timeout, ready_time, spc, fires, npostpone>>
  /\ UNCHANGED notTimeout

NextTimeout ==
  \/ Tick
  \/ dex_timeout_source_func
  \/ dex_timeout_source_func_complete
  \/ dex_timeout_source_func_clear
  \/ dex_timeout_source_func_unref
  \/ \E d \in Deadlines : dex_timeout_postpone_until(d)
  \/ dex_unref

\* Only the timeout is run.
InitTimeoutOnly == InitTimeout /\ ChannelUnused /\ FiberUnused /\ FutureUnused
  /\ SchedulerUnused /\ ArmingUnused /\ UringUnused

SpecTimeout == InitTimeoutOnly /\ [][NextTimeout]_allvars

\* C14: the timeout is PENDING exactly until dex_timeout_source_func has
\* completed it, and then REJECTED with the timed-out error for good; only
\* the source function changes it, it is called at most once and not before
\* the clock has reached the source's ready time; the timeout is never
\* RESOLVED.
C14_TimeoutRejectsOnce ==
  /\ [](timeout \in {Pending, Rejected(G_IO_ERROR_TIMED_OUT)})
  /\ [](timeout = Pending <=> (fires = 0 \/ spc = "complete"))
  /\ [](fires <= 1)
  /\ [][fires' # fires => ready_time <= now /\ timeout = Pending]_tvars
  /\ [][timeout' # timeout =>
          /\ spc = "complete"
          /\ timeout = Pending
          /\ timeout' = Rejected(G_IO_ERROR_TIMED_OUT)]_tvars

\* The source fired, the timeout is REJECTED, the source is gone and the
\* clock has moved on past the deadline without another call.
C14_Witness ==
  /\ timeout = Rejected(G_IO_ERROR_TIMED_OUT)
  /\ fires = 1
  /\ spc = "idle"
  /\ gsource = "destroyed"
  /\ ready_time < now
  /\ now = MaxTime

\* A step of dex_timeout_postpone_until.
PostponeStep == npostpone' = npostpone + 1

\* C15 as claimed: the timeout is rejected only when the clock has reached
\* the deadline last set while it was PENDING, and a postpone of a terminal
\* timeout leaves its status and error alone.
C15_PostponeMovesDeadline ==
  [][/\ (timeout = Pending /\ timeout' # Pending) => ready_time <= now
     /\ (PostponeStep /\ timeout = Pending /\ source # "NULL") =>
           ready_time' \in Deadlines /\ timeout' = Pending
     /\ (PostponeStep /\ timeout # Pending) => timeout' = timeout]_tvars

(* =============================== DexFiber ============================== *)
(* dex-fiber.c and the programs of test-fiber.c.  One thread runs a test   *)
(* function; swapcontext moves it between the test function's context and  *)
(* the fiber's.  The fiber as a future and the DexFiberScheduler's          *)
(* functions are not in the sources at hand: they follow the               *)
(* specification.                                                          *)

(* ----------------------- 32- and 64-bit arithmetic --------------------- *)

\* Bitwise or of two naturals.
RECURSIVE OrBits(_, _)
OrBits(a, b) ==
  IF a = 0 THEN b
  ELSE IF b = 0 THEN a
  ELSE (IF a % 2 = 1 \/ b % 2 = 1 THEN 1 ELSE 0) + 2 * OrBits(a \div 2, b \div 2)

Or32(a, b) ==
  [top |-> IF a.top = 1 \/ b.top = 1 THEN 1 ELSE 0, rest |-> OrBits(a.rest, b.rest)]

Or64(a, b) == [hi |-> Or32(a.hi, b.hi), lo |-> Or32(a.lo, b.lo)]

\* g & 0xFFFFFFFFF: the low 36 bits.
Mask36(g) == [hi |-> [top |-> 0, rest |-> g.hi.rest % 16], lo |-> g.lo]

ShiftRight32(g) == [hi |-> Zero32, lo |-> g.hi]

ShiftLeft32(g) == [hi |-> g.lo, lo |-> Zero32]

\* Assigning a gsize to an int keeps its low 32 bits; the int is negative
\* when bit 31 is set.
IntOfSize(g) == g.lo

\* Assigning an int to a gsize extends its sign into the high word.
SizeOfInt(i) == [hi |-> IF i.top = 1 THEN Ones32 ELSE Zero32, lo |-> i]

\* The addresses g_type_create_instance may give a fiber on a 64-bit
\* target: bit 31 of the low half clear or set, and bit 31 of the high half
\* (bit 63, as in a tagged or upper-half address) clear or set.
Pointers ==
  {[hi |-> [top |-> u, rest |-> h], lo |-> [top |-> t, rest |-> l]] :
     u \in {0, 1}, h \in {21845, 32767}, t \in {0, 1},
     l \in {4096, 305419896}}

(* --------------------------- the test programs ------------------------- *)

\* test-fiber.c lines 149-159.
test_fiber_basic ==
  <<"dex_fiber_new", "swapcontext", "g_assert_cmpint", "dex_unref">>

\* test-fiber.c lines 51-66.
test_fiber_rec_mutex ==
  <<"g_rec_mutex_lock", "dex_fiber_new", "swapcontext", "ASSERT_STATUS",
    "dex_unref", "g_rec_mutex_unlock">>

\* test-fiber.c lines 75-89.
test_fiber_scheduler_basic ==
  <<"dex_fiber_scheduler_new", "dex_fiber_new", "g_source_attach",
    "test_arg = 0", "dex_fiber_migrate_to", "g_main_context_iteration",
    "g_assert_cmpint", "ASSERT_STATUS", "dex_unref">>

Scenarios == {"test_fiber_basic", "test_fiber_rec_mutex", "test_fiber_scheduler_basic"}

Program(sc) ==
  CASE sc = "test_fiber_basic" -> test_fiber_basic
    [] sc = "test_fiber_rec_mutex" -> test_fiber_rec_mutex
    [] sc = "test_fiber_scheduler_basic" -> test_fiber_scheduler_basic
    [] OTHER -> <<>>

\* The arguments each test gives dex_fiber_new.
NewArgs(sc) ==
  CASE sc = "test_fiber_basic" ->
         [func |-> "fiber_func", func_data |-> "&test_arg", stack_size |-> 4096]
    [] sc = "test_fiber_rec_mutex" ->
         [func |-> "fiber_rec_func", func_data |-> "&fiber", stack_size |-> 0]
    [] OTHER ->
         [func |-> "scheduler_fiber_func", func_data |-> "NULL", stack_size |-> 0]

\* test-fiber.c lines 137-147.
fiber_func == <<"*arg = 321", "swapcontext", "return">>

\* test-fiber.c lines 36-49.
fiber_rec_func ==
  <<"g_rec_mutex_lock", "g_rec_mutex_lock", "g_rec_mutex_unlock",
    "g_rec_mutex_unlock", "swapcontext", "return">>

\* test-fiber.c lines 68-73.
scheduler_fiber_func == <<"test_arg = 99", "return">>

Body(f) ==
  CASE f = "fiber_func" -> fiber_func
    [] f = "fiber_rec_func" -> fiber_rec_func
    [] f = "scheduler_fiber_func" -> scheduler_fiber_func
    [] OTHER -> <<>>

\* The statement the test function is at.
MainAt(stmt) ==
  /\ running = "main"
  /\ mpc <= Len(Program(scenario))
  /\ Program(scenario)[mpc] = stmt

\* The statement the entry function is at.
FiberAt(stmt) ==
  /\ running = "fiber"
  /\ fpc.frame = "func"
  /\ fpc.at <= Len(Body(fiber.func))
  /\ Body(fiber.func)[fpc.at] = stmt

InitFiber ==
  /\ scenario \in Scenarios
  /\ running = "main"
  /\ mpc = 1
  /\ fpc = [frame |-> "none", at |-> 0]
  /\ fiber = NoFiber
  /\ tramp = NullPtr
  /\ func_args = <<>>
  /\ test_arg = 123
  /\ rmutex = [owner |-> "none", count |-> 0]
  /\ result = NoFuture
  /\ sched = NoScheduler

(* ------------------------------ dex-fiber.c ---------------------------- *)

\* The running context goes on to its next statement.
Advance ==
  IF running = "main"
  THEN mpc' = mpc + 1 /\ fpc' = fpc
  ELSE fpc' = [fpc EXCEPT !.at = @ + 1] /\ mpc' = mpc

\* Lines 108-132: the fiber at address p, its context set to enter
\* dex_fiber_start_ with the two int arguments hi and lo, and no successor
\* context (uc_link = 0).
dex_fiber_new(p, func, func_data, stack_size) ==
  [ptr |-> p, func |-> func, func_data |-> func_data, stack_size |-> stack_size,
   state |-> "READY", fiber_scheduler |-> "NULL", uc_link |-> "NULL",
   hi |-> IntOfSize(Mask36(ShiftRight32(p))), lo |-> IntOfSize(Mask36(p)),
   freed |-> FALSE]

\* The fiber as a future: PENDING when created.
dex_fiber_result_new == Pending

\* test-fiber.c lines 59, 79 and 154.
test_dex_fiber_new ==
  /\ MainAt("dex_fiber_new")
  /\ \E p \in Pointers :
       LET a == NewArgs(scenario) IN
         fiber' = dex_fiber_new(p, a.func, a.func_data, a.stack_size)
  /\ fpc' = [frame |-> "dex_fiber_start_", at |-> 0]
  /\ result' = dex_fiber_result_new
  /\ mpc' = mpc + 1
  /\ UNCHANGED <<scenario, running, tramp, func_args, test_arg, rmutex, sched>>
  /\ UNCHANGED notFiber

\* test-fiber.c lines 60 and 155: swapcontext (&g_context, &fiber->context).
\* g_context keeps the statement after the call.
swapcontext ==
  /\ MainAt("swapcontext")
  /\ running' = "fiber"
  /\ mpc' = mpc + 1
  /\ UNCHANGED <<scenario, fpc, fiber, tramp, func_args, test_arg, rmutex,
                 result, sched>>
  /\ UNCHANGED notFiber

\* Lines 82-87: hi = arg1; lo = va_arg (args, int); (hi << 32) | lo, with hi
\* and lo of type gsize.
dex_fiber_start_pointer(arg1, arg2) ==
  Or64(ShiftLeft32(SizeOfInt(arg1)), SizeOfInt(arg2))

\* Lines 70-90: the trampoline puts the pointer together; g_assert
\* (DEX_IS_FIBER (fiber)) ends the program when it is not the fiber's.
dex_fiber_start_ ==
  /\ running = "fiber"
  /\ fpc.frame = "dex_fiber_start_"
  /\ tramp' = dex_fiber_start_pointer(fiber.hi, fiber.lo)
  /\ IF tramp' = fiber.ptr
     THEN fpc' = [frame |-> "dex_fiber_start", at |-> 0] /\ running' = running
     ELSE fpc' = fpc /\ running' = "aborted"
  /\ UNCHANGED <<scenario, mpc, fiber, func_args, test_arg, rmutex, result, sched>>
  /\ UNCHANGED notFiber

\* Lines 64-68 and 92: fiber->func (fiber, fiber->func_data).
dex_fiber_start ==
  /\ running = "fiber"
  /\ fpc.frame = "dex_fiber_start"
  /\ func_args' = <<[fiber |-> tramp, data |-> fiber.func_data]>>
  /\ fpc' = [frame |-> "func", at |-> 1]
  /\ UNCHANGED <<scenario, running, mpc, fiber, tramp, test_arg, rmutex, result, sched>>
  /\ UNCHANGED notFiber

\* Line 67 and test-fiber.c lines 48 and 72: the entry function returns into
\* dex_fiber_start, which returns into dex_fiber_start_.
dex_fiber_start_returned ==
  /\ FiberAt("return")
  /\ fpc' = [frame |-> "returned", at |-> 0]
  /\ UNCHANGED <<scenario, running, mpc, fiber, tramp, func_args, test_arg,
                 rmutex, result, sched>>
  /\ UNCHANGED notFiber

\* Lines 93 and 118: dex_fiber_start_ returns; the context it ran in was
\* made with uc_link = 0, and a context without successor ends the thread.
makecontext_successor(uc_link) == IF uc_link = "NULL" THEN "exited" ELSE uc_link

dex_fiber_start_end ==
  /\ running = "fiber"
  /\ fpc.frame = "returned"
  /\ fpc' = [frame |-> "end", at |-> 0]
  /\ running' = makecontext_successor(fiber.uc_link)
  /\ UNCHANGED <<scenario, mpc, fiber, tramp, func_args, test_arg, rmutex,
                 result, sched>>
  /\ UNCHANGED notFiber

\* Lines 41-49, run by the test's dex_unref: the stack is freed.
dex_fiber_finalize ==
  /\ MainAt("dex_unref")
  /\ fiber' = [fiber EXCEPT !.freed = TRUE]
  /\ mpc' = mpc + 1
  /\ UNCHANGED <<scenario, running, fpc, tramp, func_args, test_arg, rmutex,
                 result, sched>>
  /\ UNCHANGED notFiber

(* ------------------------------ test-fiber.c --------------------------- *)

\* A lock owner that is the context, not the thread.
ThreadOf_context(ctx) == ctx

\* swapcontext changes the stack the thread runs on, not the thread: the
\* test function and the fiber are the same owner to a GRecMutex.
ThreadOf(ctx) == "thread"

\* test-fiber.c lines 41, 42 and 57: the lock is taken when it is free or
\* held by the calling thread; otherwise the caller waits.
g_rec_mutex_lock ==
  /\ MainAt("g_rec_mutex_lock") \/ FiberAt("g_rec_mutex_lock")
  /\ rmutex.owner \in {"none", ThreadOf(running)}
  /\ rmutex' = [owner |-> ThreadOf(running), count |-> rmutex.count + 1]
  /\ Advance
  /\ UNCHANGED <<scenario, running, fiber, tramp, func_args, test_arg, result, sched>>
  /\ UNCHANGED notFiber

\* test-fiber.c lines 43, 44 and 64.
g_rec_mutex_unlock ==
  /\ MainAt("g_rec_mutex_unlock") \/ FiberAt("g_rec_mutex_unlock")
  /\ rmutex.owner = ThreadOf(running)
  /\ rmutex' = IF rmutex.count = 1
               THEN [owner |-> "none", count |-> 0]
               ELSE [rmutex EXCEPT !.count = @ - 1]
  /\ Advance
  /\ UNCHANGED <<scenario, running, fiber, tramp, func_args, test_arg, result, sched>>
  /\ UNCHANGED notFiber

\* test-fiber.c lines 141-145: the two assertions, then *arg = 321.
fiber_func_assign ==
  /\ FiberAt("*arg = 321")
  /\ IF func_args[1].data = "&test_arg" /\ test_arg = 123
     THEN test_arg' = 321 /\ running' = running
     ELSE test_arg' = test_arg /\ running' = "aborted"
  /\ Advance
  /\ UNCHANGED <<scenario, fiber, tramp, func_args, rmutex, result, sched>>
  /\ UNCHANGED notFiber

\* test-fiber.c line 71.
scheduler_fiber_func_assign ==
  /\ FiberAt("test_arg = 99")
  /\ test_arg' = 99
  /\ Advance
  /\ UNCHANGED <<scenario, running, fiber, tramp, func_args, rmutex, result, sched>>
  /\ UNCHANGED notFiber

\* test-fiber.c line 146: swapcontext (&fiber->context, &g_context), and
\* line 46: swapcontext (&(*fiber)->context, &g_context).  fiber_rec_func
\* has one parameter and is called with two (dex-fiber.c line 67), so its
\* user_data is the fiber and not the address of the test's variable: the
\* context is saved through a pointer read from the fiber's first word,
\* after which the thread either goes on in g_context or faults.
fiber_swapcontext ==
  /\ FiberAt("swapcontext")
  /\ \/ running' = "main"
     \/ fiber.func = "fiber_rec_func" /\ running' = "aborted"
  /\ fpc' = [fpc EXCEPT !.at = @ + 1]
  /\ UNCHANGED <<scenario, mpc, fiber, tramp, func_args, test_arg, rmutex,
                 result, sched>>
  /\ UNCHANGED notFiber

\* test-fiber.c lines 86 and 156.
g_assert_cmpint ==
  /\ MainAt("g_assert_cmpint")
  /\ IF test_arg = (IF scenario = "test_fiber_basic" THEN 321 ELSE 99)
     THEN mpc' = mpc + 1 /\ running' = running
     ELSE mpc' = mpc /\ running' = "aborted"
  /\ UNCHANGED <<scenario, fpc, fiber, tramp, func_args, test_arg, rmutex,
                 result, sched>>
  /\ UNCHANGED notFiber

\* test-fiber.c lines 61 and 88.
ASSERT_STATUS ==
  /\ MainAt("ASSERT_STATUS")
  /\ IF result.status = (IF scenario = "test_fiber_rec_mutex"
                         THEN "PENDING" ELSE "REJECTED")
     THEN mpc' = mpc + 1 /\ running' = running
     ELSE mpc' = mpc /\ running' = "aborted"
  /\ UNCHANGED <<scenario, fpc, fiber, tramp, func_args, test_arg, rmutex,
                 result, sched>>
  /\ UNCHANGED notFiber

\* test-fiber.c line 83.
test_arg_reset ==
  /\ MainAt("test_arg = 0")
  /\ test_arg' = 0
  /\ mpc' = mpc + 1
  /\ UNCHANGED <<scenario, running, fpc, fiber, tramp, func_args, rmutex,
                 result, sched>>
  /\ UNCHANGED notFiber

(* --------------------------- DexFiberScheduler ------------------------- *)

\* test-fiber.c line 78: a scheduler with empty queues and no current fiber.
dex_fiber_scheduler_new ==
  /\ MainAt("dex_fiber_scheduler_new")
  /\ sched' = [NoScheduler EXCEPT !.exists = TRUE]
  /\ mpc' = mpc + 1
  /\ UNCHANGED <<scenario, running, fpc, fiber, tramp, func_args, test_arg,
                 rmutex, result>>
  /\ UNCHANGED notFiber

\* test-fiber.c line 81.
g_source_attach ==
  /\ MainAt("g_source_attach")
  /\ sched' = [sched EXCEPT !.attached = TRUE]
  /\ mpc' = mpc + 1
  /\ UNCHANGED <<scenario, running, fpc, fiber, tramp, func_args, test_arg,
                 rmutex, result>>
  /\ UNCHANGED notFiber

\* test-fiber.c line 84: under the scheduler's rec_mutex the fiber gets the
\* scheduler, the state READY and the last place of ready.
dex_fiber_migrate_to ==
  /\ MainAt("dex_fiber_migrate_to")
  /\ sched.rec_mutex.owner \in {"none", ThreadOf(running)}
  /\ fiber' = [fiber EXCEPT !.fiber_scheduler = "scheduler", !.state = "READY"]
  /\ sched' = [sched EXCEPT !.ready = Append(@, "fiber")]
  /\ mpc' = mpc + 1
  /\ UNCHANGED <<scenario, running, fpc, tramp, func_args, test_arg, rmutex, result>>
  /\ UNCHANGED notFiber

\* test-fiber.c line 85: one iteration of the main loop.  An attached
\* scheduler with a READY fiber is dispatched: it takes its rec_mutex, pops
\* the head of ready, makes it current and swaps into it, keeping its own
\* context for the fiber to come back to.
g_main_context_iteration ==
  /\ MainAt("g_main_context_iteration")
  /\ IF sched.attached /\ sched.ready # <<>>
     THEN /\ sched' = [sched EXCEPT !.ready = Tail(@), !.current = Head(sched.ready),
                                    !.rec_mutex = [owner |-> ThreadOf(running),
                                                   count |-> @.count + 1]]
          /\ running' = "fiber"
     ELSE UNCHANGED <<sched, running>>
  /\ mpc' = mpc + 1
  /\ UNCHANGED <<scenario, fpc, fiber, tramp, func_args, test_arg, rmutex, result>>
  /\ UNCHANGED notFiber

NextFiber ==
  \/ test_dex_fiber_new
  \/ swapcontext
  \/ dex_fiber_start_
  \/ dex_fiber_start
  \/ dex_fiber_start_returned
  \/ dex_fiber_start_end
  \/ dex_fiber_finalize
  \/ g_rec_mutex_lock
  \/ g_rec_mutex_unlock
  \/ fiber_func_assign
  \/ scheduler_fiber_func_assign
  \/ fiber_swapcontext
  \/ g_assert_cmpint
  \/ ASSERT_STATUS
  \/ test_arg_reset
  \/ dex_fiber_scheduler_new
  \/ g_source_attach
  \/ dex_fiber_migrate_to
  \/ g_main_context_iteration

\* Only the fiber tests are run.
InitFiberOnly == InitFiber /\ ChannelUnused /\ TimeoutUnused /\ FutureUnused
  /\ SchedulerUnused /\ ArmingUnused /\ UringUnused

SpecFiber == InitFiberOnly /\ [][NextFiber]_allvars

\* C16 as claimed: in test_fiber_basic the first swap into the fiber starts
\* fiber_func with the fiber and with &test_arg (the program does not end in
\* the trampoline), and once the test function runs again after its
\* swapcontext the fiber has yielded from fiber_func and test_arg is 321.
C16_SwapStartsFunc ==
  scenario = "test_fiber_basic" =>
    /\ running # "aborted"
    /\ func_args # <<>> =>
         func_args[1] = [fiber |-> fiber.ptr, data |-> "&test_arg"]
    /\ (running = "main" /\ mpc > 2) =>
         test_arg = 321 /\ fpc = [frame |-> "func", at |-> 3]

\* C26 as claimed: the pointer dex_fiber_start_ puts together from the two
\* int arguments hi and lo that dex_fiber_new gave to makecontext is the
\* fiber's address, whether bit 31 of the low or of the high half is set or
\* not.
C26_PointerReassembled ==
  tramp # NullPtr => tramp = fiber.ptr

\* C17: in test_fiber_rec_mutex, from the test function's g_rec_mutex_lock
\* to its g_rec_mutex_unlock the lock is owned by the thread with a hold
\* count of at least 1; the fiber finds it owned by its own thread each time
\* it is about to lock (it does not wait); and whenever the test function
\* runs again after the fiber's yield the lock is owned by the thread with
\* hold count 1.
C17_RecMutexSurvivesSwitch ==
  scenario = "test_fiber_rec_mutex" =>
    /\ mpc \in 2 .. 6 => rmutex.owner = "thread" /\ rmutex.count >= 1
    /\ FiberAt("g_rec_mutex_lock") => rmutex.owner = ThreadOf("fiber")
    /\ (running = "main" /\ mpc \in 4 .. 6) =>
         rmutex = [owner |-> "thread", count |-> 1]

\* The fiber has locked twice, unlocked twice and yielded; the test function
\* is at its ASSERT_STATUS and the lock is held once by the thread.
C17_Witness ==
  /\ scenario = "test_fiber_rec_mutex"
  /\ running = "main"
  /\ mpc = 4
  /\ fpc = [frame |-> "func", at |-> 6]
  /\ rmutex = [owner |-> "thread", count |-> 1]

\* C18 as claimed: the thread never runs past the end of the trampoline,
\* and once the trampoline is done with a fiber whose entry function
\* returned, the fiber is EXITED, its result future is terminal and the
\* thread is back in the context that resumed the fiber.
C18_TrampolineExit ==
  /\ running # "exited"
  /\ fpc.frame = "end" =>
       /\ fiber.state = "EXITED"
       /\ IsTerminal(result)
       /\ running = "main"

\* C19 as claimed: the result future of a fiber is PENDING as long as the
\* entry function has not returned, and REJECTED once the trampoline is done
\* with an entry function that returned no value.
C19_ResultTerminalIffReturned ==
  fiber.ptr # NullPtr =>
    /\ fpc.frame \notin {"returned", "end"} => result = Pending
    /\ fpc.frame = "end" => result.status = "REJECTED"

\* C20 as claimed: after dex_fiber_migrate_to the fiber has the scheduler,
\* is READY and is the last of ready; the next iteration of the loop
\* dispatches it; a fiber the trampoline was entered for with the right
\* pointer leaves the thread alive, and when the test function runs again
\* after the iteration, the entry function has run (test_arg is 99) and the
\* trampoline is done.
C20_MigratedFiberRuns ==
  scenario = "test_fiber_scheduler_basic" =>
    /\ mpc = 6 =>
         /\ fiber.fiber_scheduler = "scheduler"
         /\ fiber.state = "READY"
         /\ sched.ready = <<"fiber">>
    /\ mpc > 6 => sched.current = "fiber" /\ sched.ready = <<>>
    /\ (mpc > 6 /\ tramp = fiber.ptr) => running \in {"main", "fiber"}
    /\ (mpc > 6 /\ running = "main") => test_arg = 99 /\ fpc.frame = "end"

(* ------------------- DexFuture: completion and listeners ---------------- *)

\* One DexPromise shared by the threads of Threads.  Each thread repeatedly
\* resolves it, rejects it, or registers a listener on it.  Every operation
\* that reads or writes status or the listener list holds the future's mutex,
\* so its critical section is one step; the listeners are called after the
\* mutex is released, one call per step, from the list the thread detached.

MaxListeners == 3
MaxComplete == 2

ListenerIds == 1 .. MaxListeners
Values == {1, 2}
TIMED_OUT == "TIMED_OUT"
Outcomes == {Resolved(v) : v \in Values} \cup {Rejected(TIMED_OUT)}

\* dex_promise_new
dex_promise_new == Pending

InitFuture ==
  /\ promise = dex_promise_new
  /\ listeners = <<>>
  /\ registered = <<>>
  /\ invoked = <<>>
  /\ attempts = <<>>
  /\ upc = [t \in Threads |-> [at |-> "idle", detached |-> <<>>, cb |-> 0]]

\* The list complete() takes away from a future it has just completed.
dex_future_detach(f, list) == IF f.status = "PENDING" THEN list ELSE <<>>

\* Whether add_listener calls the listener at once instead of queueing it.
dex_future_add_listener_immediate_never(f) == FALSE

dex_future_add_listener_immediate(f) == IsTerminal(f)

\* complete(value_or_error) by thread t: under the mutex the one legal
\* transition and the detaching of the listener list.
complete(t, outcome) ==
  /\ upc[t].at = "idle"
  /\ Len(attempts) < MaxComplete
  /\ promise' = dex_future_complete(promise, outcome)
  /\ attempts' = Append(attempts, outcome)
  /\ LET detached == dex_future_detach(promise, listeners)
     IN /\ listeners' = IF promise.status = "PENDING" THEN <<>> ELSE listeners
        /\ upc' = [upc EXCEPT ![t] =
                     [at |-> IF detached = <<>> THEN "idle" ELSE "notify",
                      detached |-> detached, cb |-> 0]]
  /\ UNCHANGED <<registered, invoked>>

\* dex_promise_resolve
dex_promise_resolve(t) ==
  /\ \E v \in Values : complete(t, Resolved(v))
  /\ UNCHANGED notFuture

\* dex_promise_reject, as the timeout's source function does
dex_promise_reject_timed_out(t) ==
  /\ complete(t, Rejected(TIMED_OUT))
  /\ UNCHANGED notFuture

\* After the mutex is released: the next detached listener is called with the
\* future as its argument.
dex_future_notify(t) ==
  /\ upc[t].at = "notify"
  /\ invoked' = Append(invoked, [cb |-> Head(upc[t].detached),
                                 status |-> promise.status])
  /\ upc' = [upc EXCEPT ![t] =
               [at |-> IF Len(upc[t].detached) = 1 THEN "idle" ELSE "notify",
                detached |-> Tail(upc[t].detached), cb |-> 0]]
  /\ UNCHANGED <<promise, listeners, registered, attempts>>
  /\ UNCHANGED notFuture

\* add_listener(cb) by thread t: under the mutex, queue the listener on a
\* pending future; on a terminal one it is called as soon as the mutex is
\* released.
dex_future_add_listener(t) ==
  /\ upc[t].at = "idle"
  /\ Len(registered) < MaxListeners
  /\ LET cb == Len(registered) + 1
     IN /\ registered' = Append(registered,
                                 [cb |-> cb, status |-> promise.status])
        /\ IF dex_future_add_listener_immediate(promise)
             THEN /\ upc' = [upc EXCEPT ![t] =
                               [at |-> "invoke", detached |-> <<>>, cb |-> cb]]
                  /\ UNCHANGED listeners
             ELSE /\ listeners' = Append(listeners, cb)
                  /\ UNCHANGED upc
  /\ UNCHANGED <<promise, invoked, attempts>>
  /\ UNCHANGED notFuture

\* The call of a listener that was registered on a terminal future.
dex_future_add_listener_invoke(t) ==
  /\ upc[t].at = "invoke"
  /\ invoked' = Append(invoked, [cb |-> upc[t].cb, status |-> promise.status])
  /\ upc' = [upc EXCEPT ![t] = [at |-> "idle", detached |-> <<>>, cb |-> 0]]
  /\ UNCHANGED <<promise, listeners, registered, attempts>>
  /\ UNCHANGED notFuture

NextFuture ==
  \/ \E t \in Threads : dex_promise_resolve(t)
  \/ \E t \in Threads : dex_promise_reject_timed_out(t)
  \/ \E t \in Threads : dex_future_notify(t)
  \/ \E t \in Threads : dex_future_add_listener(t)
  \/ \E t \in Threads : dex_future_add_listener_invoke(t)

InitFutureOnly ==
  InitFuture /\ ChannelUnused /\ TimeoutUnused /\ FiberUnused
  /\ SchedulerUnused /\ ArmingUnused /\ UringUnused

SpecFuture == InitFutureOnly /\ [][NextFuture]_allvars

\* The listeners that were registered, in the order of registration.
RegisteredCbs == [i \in 1 .. Len(registered) |-> registered[i].cb]

\* The listeners that were registered while the future was PENDING.
AddedWhilePending ==
  {registered[i].cb : i \in {j \in 1 .. Len(registered) :
                                 registered[j].status = "PENDING"}}

\* The listeners that have been called, in the order of the calls.
InvokedCbs == [i \in 1 .. Len(invoked) |-> invoked[i].cb]

\* How often listener cb has been called.
TimesInvoked(cb) == Cardinality({i \in 1 .. Len(invoked) : invoked[i].cb = cb})

\* No thread is inside an operation on the promise.
FutureQuiescent == \A t \in Threads : upc[t].at = "idle"

\* C21: the status, value and error of a future change at most once and only
\* from PENDING: after any sequence of complete attempts from any threads
\* they are those of the first attempt, and every later attempt leaves them
\* unchanged.
C21_StatusChangesOnce ==
  /\ [](attempts = <<>> => promise = Pending)
  /\ [](attempts # <<>> => promise = attempts[1])
  /\ [][promise # Pending => promise' = promise]_pvars

\* Two attempts with different outcomes were made; the first one stands.
C21_Witness ==
  /\ Len(attempts) = 2
  /\ attempts[1] = Resolved(1)
  /\ attempts[2] = Resolved(2)
  /\ promise = Resolved(1)

\* C22 as stated: every listener is called exactly once, only with a terminal
\* future, and the calls happen in registration order under every
\* interleaving of add_listener with complete.
C22_ListenersInRegistrationOrder ==
  /\ \A i \in 1 .. Len(invoked) : invoked[i].status # "PENDING"
  /\ \A cb \in ListenerIds : TimesInvoked(cb) <= 1
  /\ (FutureQuiescent /\ IsTerminal(promise)) =>
        \A cb \in Range(RegisteredCbs) : TimesInvoked(cb) = 1
  /\ \A i, j \in 1 .. Len(invoked) : i < j => invoked[i].cb < invoked[j].cb

\* C22 (amended): every registered listener is called exactly once and only
\* with a terminal future: one added while PENDING is called by the
\* completing thread, in registration order among the listeners added while
\* PENDING; one added after completion is called at once by the adding
\* thread, which may be before the completing thread has called the earlier
\* ones.
C22_ListenersOnce ==
  /\ \A i \in 1 .. Len(invoked) : invoked[i].status # "PENDING"
  /\ \A cb \in ListenerIds : TimesInvoked(cb) <= 1
  /\ promise = Pending => invoked = <<>> /\ listeners = RegisteredCbs
  /\ (FutureQuiescent /\ IsTerminal(promise)) =>
        /\ listeners = <<>>
        /\ \A cb \in Range(RegisteredCbs) : TimesInvoked(cb) = 1
  /\ \A i, j \in 1 .. Len(invoked) :
        (/\ i < j
         /\ invoked[i].cb \in AddedWhilePending
         /\ invoked[j].cb \in AddedWhilePending) =>
           invoked[i].cb < invoked[j].cb

\* Two listeners were added while PENDING and one after the completion; all
\* three have been called, the late one before the second early one.
C22_Witness ==
  /\ FutureQuiescent
  /\ IsTerminal(promise)
  /\ Len(registered) = 3
  /\ InvokedCbs = <<1, 3, 2>>

(* ---------------- DexFiberScheduler: dispatch and await ----------------- *)

\* The event-loop thread runs dispatch; the entry function of a fiber is a
\* sequence of at most MaxOps operations (yield, await a future, complete a
\* future), after which it returns.  One other thread migrates fibers to the
\* scheduler and completes futures.  rec_mutex guards ready and waiting: the
\* loop thread holds it for the whole of a dispatch, a listener takes it to
\* move a fiber.

NumFibers == 2
MaxOps == 2

FiberIds == 1 .. NumFibers

\* The futures the fibers await: one, shared by all of them.
AwaitedIds == {1}

\* dex_fiber_scheduler_new and dex_fiber_new: fibers are created detached.
InitScheduler ==
  /\ fiber_scheduler = [ready |-> <<>>, waiting |-> {}, current |-> 0,
                        rec_mutex |-> [owner |-> "none", count |-> 0]]
  /\ fibers = [f \in FiberIds |->
                 [state |-> "READY", scheduler |-> "NULL", at |-> "entry",
                  future |-> 0, detached |-> <<>>, left |-> MaxOps,
                  result |-> "PENDING"]]
  /\ awaited = [u \in AwaitedIds |-> [status |-> "PENDING", listeners |-> <<>>]]
  /\ loop = "idle"
  /\ other = [at |-> "idle", detached |-> <<>>]
  /\ resumed = <<>>
  /\ wakes = [f \in FiberIds |-> [parked |-> 0, woken |-> 0]]

\* GRecMutex: free, or held by the thread that asks.
g_rec_mutex_trylock(m, thread) == m.owner \in {"none", thread}

g_rec_mutex_locked(m, thread) == [owner |-> thread, count |-> m.count + 1]

\* An unlock that gives the lock up whatever its count.
g_rec_mutex_unlocked_all(m) == [owner |-> "none", count |-> 0]

\* g_rec_mutex_unlock
g_rec_mutex_unlocked(m) ==
  IF m.count = 1 THEN [owner |-> "none", count |-> 0]
  ELSE [owner |-> m.owner, count |-> m.count - 1]

\* The fiber dispatch swaps into: one that is not the head of ready.
g_queue_peek_last(q) == q[Len(q)]

g_queue_peek_head(q) == Head(q)

\* The queue without fiber f.
g_queue_unlink(q, f) == SelectSeq(q, LAMBDA x : x # f)

g_queue_push_tail(q, f) == Append(q, f)

\* The listener await registers, run under rec_mutex: it moves fiber f from
\* WAITING to READY, from waiting to the tail of ready.
dex_fiber_wake(fs, f) ==
  IF fibers[f].state = "WAITING"
    THEN [fs EXCEPT !.waiting = @ \ {f},
                    !.ready = g_queue_push_tail(@, f)]
    ELSE fs

dex_fiber_woken(fbs, f) ==
  IF fbs[f].state = "WAITING" THEN [fbs EXCEPT ![f].state = "READY"] ELSE fbs

wakes_after(f) ==
  IF fibers[f].state = "WAITING"
    THEN [wakes EXCEPT ![f].woken = @ + 1] ELSE wakes

\* migrate_to(s) by the other thread: under s.rec_mutex the fiber gets its
\* scheduler, becomes READY and is appended to s.ready.
fiber_migrate_to(f) ==
  /\ other.at = "idle"
  /\ fibers[f].scheduler = "NULL"
  /\ g_rec_mutex_trylock(fiber_scheduler.rec_mutex, "other")
  /\ fibers' = [fibers EXCEPT ![f].scheduler = "S", ![f].state = "READY"]
  /\ fiber_scheduler' =
       [fiber_scheduler EXCEPT !.ready = g_queue_push_tail(@, f)]
  /\ UNCHANGED <<awaited, loop, other, resumed, wakes>>
  /\ UNCHANGED notScheduler

\* Dispatch, entry: the loop thread takes rec_mutex.
scheduler_dispatch(thread) ==
  /\ loop = "idle"
  /\ g_rec_mutex_trylock(fiber_scheduler.rec_mutex, thread)
  /\ fiber_scheduler' =
       [fiber_scheduler EXCEPT
          !.rec_mutex = g_rec_mutex_locked(@, thread)]
  /\ loop' = "locked"
  /\ UNCHANGED <<fibers, awaited, other, resumed, wakes>>
  /\ UNCHANGED notScheduler

\* Dispatch, steps 1 and 5: ready is empty, the lock is released.
scheduler_dispatch_release ==
  /\ loop = "locked"
  /\ fiber_scheduler.ready = <<>>
  /\ fiber_scheduler' =
       [fiber_scheduler EXCEPT !.rec_mutex = g_rec_mutex_unlocked(@)]
  /\ loop' = "idle"
  /\ UNCHANGED <<fibers, awaited, other, resumed, wakes>>
  /\ UNCHANGED notScheduler

\* Dispatch, step 2: pop the head of ready, make it current, swap into it.
scheduler_dispatch_swap ==
  /\ loop = "locked"
  /\ fiber_scheduler.ready # <<>>
  /\ LET f == g_queue_peek_head(fiber_scheduler.ready)
     IN /\ fiber_scheduler' =
             [fiber_scheduler EXCEPT !.ready = g_queue_unlink(@, f),
                                     !.current = f]
        /\ resumed' = Append(resumed, f)
  /\ loop' = "fiber"
  /\ UNCHANGED <<fibers, awaited, other, wakes>>
  /\ UNCHANGED notScheduler

\* Dispatch, step 3: the fiber has yielded.  EXITED: dropped; WAITING: in
\* waiting; READY: to the tail of ready.  No fiber is current any more.
scheduler_dispatch_yielded ==
  /\ loop = "yielded"
  /\ LET f == fiber_scheduler.current
     IN fiber_scheduler' =
          [fiber_scheduler EXCEPT
             !.current = 0,
             !.waiting = IF fibers[f].state = "WAITING" THEN @ \cup {f}
                         ELSE @,
             !.ready = IF fibers[f].state = "READY"
                         THEN g_queue_push_tail(@, f) ELSE @]
  /\ loop' = "locked"
  /\ UNCHANGED <<fibers, awaited, other, resumed, wakes>>
  /\ UNCHANGED notScheduler

\* Fiber f executes user code on the loop thread.
Executing(f) ==
  /\ loop = "fiber"
  /\ fiber_scheduler.current = f
  /\ fibers[f].state = "READY"

\* The entry function yields without blocking.
fiber_yield(f) ==
  /\ Executing(f)
  /\ fibers[f].at = "entry"
  /\ fibers[f].left > 0
  /\ fibers' = [fibers EXCEPT ![f].left = @ - 1]
  /\ loop' = "yielded"
  /\ UNCHANGED <<fiber_scheduler, awaited, other, resumed, wakes>>
  /\ UNCHANGED notScheduler

\* await(future), first step: a terminal future's outcome is returned at
\* once, otherwise a listener is going to be registered.
fiber_await(f, u) ==
  /\ Executing(f)
  /\ fibers[f].at = "entry"
  /\ fibers[f].left > 0
  /\ fibers' = [fibers EXCEPT
                  ![f].left = @ - 1,
                  ![f].at = IF awaited[u].status = "PENDING"
                              THEN "await_add" ELSE "entry",
                  ![f].future = IF awaited[u].status = "PENDING"
                                  THEN u ELSE 0]
  /\ UNCHANGED <<fiber_scheduler, awaited, loop, other, resumed, wakes>>
  /\ UNCHANGED notScheduler

\* await, second step: add_listener.  On a future that is terminal by now
\* the listener is invoked at once, on this thread.
fiber_await_add_listener(f) ==
  /\ Executing(f)
  /\ fibers[f].at = "await_add"
  /\ LET u == fibers[f].future
     IN IF awaited[u].status = "PENDING"
          THEN /\ awaited' = [awaited EXCEPT ![u].listeners = Append(@, f)]
               /\ UNCHANGED <<fiber_scheduler, wakes>>
               /\ fibers' = [fibers EXCEPT ![f].at = "await_park"]
          ELSE /\ fiber_scheduler' = dex_fiber_wake(fiber_scheduler, f)
               /\ wakes' = wakes_after(f)
               /\ fibers' = [dex_fiber_woken(fibers, f) EXCEPT
                               ![f].at = "await_park"]
               /\ UNCHANGED awaited
  /\ UNCHANGED <<loop, other, resumed>>
  /\ UNCHANGED notScheduler

\* await, last step: the fiber becomes WAITING and swaps back to the
\* scheduler's saved context.
fiber_await_park(f) ==
  /\ Executing(f)
  /\ fibers[f].at = "await_park"
  /\ fibers' = [fibers EXCEPT ![f].state = "WAITING", ![f].at = "entry"]
  /\ wakes' = [wakes EXCEPT ![f].parked = @ + 1]
  /\ loop' = "yielded"
  /\ UNCHANGED <<fiber_scheduler, awaited, other, resumed>>
  /\ UNCHANGED notScheduler

\* The entry function completes future u: the transition and the detaching
\* of the listeners, under the future's mutex.
fiber_complete(f, u) ==
  /\ Executing(f)
  /\ fibers[f].at = "entry"
  /\ fibers[f].left > 0
  /\ awaited[u].status = "PENDING"
  /\ awaited' = [awaited EXCEPT ![u] = [status |-> "RESOLVED",
                                        listeners |-> <<>>]]
  /\ fibers' = [fibers EXCEPT
                  ![f].left = @ - 1,
                  ![f].detached = awaited[u].listeners,
                  ![f].at = IF awaited[u].listeners = <<>>
                              THEN "entry" ELSE "notify_lock"]
  /\ UNCHANGED <<fiber_scheduler, loop, other, resumed, wakes>>
  /\ UNCHANGED notScheduler

\* A listener called from the dispatch path takes rec_mutex, which the loop
\* thread holds already.
fiber_listener_lock(f) ==
  /\ Executing(f)
  /\ fibers[f].at = "notify_lock"
  /\ g_rec_mutex_trylock(fiber_scheduler.rec_mutex, "loop")
  /\ fiber_scheduler' =
       [fiber_scheduler EXCEPT !.rec_mutex = g_rec_mutex_locked(@, "loop")]
  /\ fibers' = [fibers EXCEPT ![f].at = "notify_wake"]
  /\ UNCHANGED <<awaited, loop, other, resumed, wakes>>
  /\ UNCHANGED notScheduler

\* ... moves the awaiting fiber to ready and releases the lock once.
fiber_listener_wake(f) ==
  /\ Executing(f)
  /\ fibers[f].at = "notify_wake"
  /\ LET g == Head(fibers[f].detached)
     IN /\ fiber_scheduler' =
             [dex_fiber_wake(fiber_scheduler, g) EXCEPT
                !.rec_mutex = g_rec_mutex_unlocked(@)]
        /\ wakes' = wakes_after(g)
        /\ fibers' = [dex_fiber_woken(fibers, g) EXCEPT
                        ![f].detached = Tail(@),
                        ![f].at = IF Len(fibers[f].detached) = 1
                                    THEN "entry" ELSE "notify_lock"]
  /\ UNCHANGED <<awaited, loop, other, resumed>>
  /\ UNCHANGED notScheduler

\* The entry function returns: the trampoline marks the fiber EXITED,
\* completes its result and swaps back to the scheduler.
fiber_exit(f) ==
  /\ Executing(f)
  /\ fibers[f].at = "entry"
  /\ fibers' = [fibers EXCEPT ![f].state = "EXITED", ![f].at = "exited",
                              ![f].result = "RESOLVED"]
  /\ loop' = "yielded"
  /\ UNCHANGED <<fiber_scheduler, awaited, other, resumed, wakes>>
  /\ UNCHANGED notScheduler

\* The other thread completes future u.
other_complete(u) ==
  /\ other.at = "idle"
  /\ awaited[u].status = "PENDING"
  /\ awaited' = [awaited EXCEPT ![u] = [status |-> "RESOLVED",
                                        listeners |-> <<>>]]
  /\ other' = [at |-> IF awaited[u].listeners = <<>> THEN "idle"
                      ELSE "notify",
               detached |-> awaited[u].listeners]
  /\ UNCHANGED <<fiber_scheduler, fibers, loop, resumed, wakes>>
  /\ UNCHANGED notScheduler

\* ... and calls the next detached listener, which takes rec_mutex, moves
\* the awaiting fiber to ready and releases the lock.
other_listener(thread) ==
  /\ other.at = "notify"
  /\ g_rec_mutex_trylock(fiber_scheduler.rec_mutex, thread)
  /\ LET g == Head(other.detached)
     IN /\ fiber_scheduler' = dex_fiber_wake(fiber_scheduler, g)
        /\ wakes' = wakes_after(g)
        /\ fibers' = dex_fiber_woken(fibers, g)
  /\ other' = [at |-> IF Len(other.detached) = 1 THEN "idle" ELSE "notify",
               detached |-> Tail(other.detached)]
  /\ UNCHANGED <<awaited, loop, resumed>>
  /\ UNCHANGED notScheduler

NextScheduler ==
  \/ \E f \in FiberIds : fiber_migrate_to(f)
  \/ scheduler_dispatch("loop")
  \/ scheduler_dispatch_release
  \/ scheduler_dispatch_swap
  \/ scheduler_dispatch_yielded
  \/ \E f \in FiberIds : fiber_yield(f)
  \/ \E f \in FiberIds : \E u \in AwaitedIds : fiber_await(f, u)
  \/ \E f \in FiberIds : fiber_await_add_listener(f)
  \/ \E f \in FiberIds : fiber_await_park(f)
  \/ \E f \in FiberIds : \E u \in AwaitedIds : fiber_complete(f, u)
  \/ \E f \in FiberIds : fiber_listener_lock(f)
  \/ \E f \in FiberIds : fiber_listener_wake(f)
  \/ \E f \in FiberIds : fiber_exit(f)
  \/ \E u \in AwaitedIds : other_complete(u)
  \/ other_listener("other")

InitSchedulerOnly ==
  InitScheduler /\ ChannelUnused /\ TimeoutUnused /\ FiberUnused
  /\ FutureUnused /\ ArmingUnused /\ UringUnused

SpecScheduler == InitSchedulerOnly /\ [][NextScheduler]_allvars

\* C23: whenever a fiber is current, rec_mutex is held by the event-loop
\* thread; and a listener that re-enters the scheduler from the dispatch path
\* finds the lock held by its own thread, takes it a second time and gives it
\* back once, so that it neither blocks nor frees the lock under the fiber.
C23_CurrentHoldsRecMutex ==
  /\ fiber_scheduler.current # 0 =>
        /\ fiber_scheduler.rec_mutex.owner = "loop"
        /\ fiber_scheduler.rec_mutex.count >= 1
  /\ loop # "idle" => fiber_scheduler.rec_mutex.owner = "loop"
  /\ \A f \in FiberIds :
        /\ fibers[f].at = "notify_lock" =>
              /\ fiber_scheduler.current = f
              /\ fiber_scheduler.rec_mutex = [owner |-> "loop", count |-> 1]
        /\ fibers[f].at = "notify_wake" =>
              /\ fiber_scheduler.current = f
              /\ fiber_scheduler.rec_mutex = [owner |-> "loop", count |-> 2]

\* Fiber 1, running, completed the future fiber 2 awaits; its listener holds
\* the lock a second time.
C23_Witness ==
  /\ fiber_scheduler.current = 1
  /\ fibers[1].at = "notify_wake"
  /\ fibers[1].detached = <<2>>
  /\ fibers[2].state = "WAITING"
  /\ fiber_scheduler.rec_mutex = [owner |-> "loop", count |-> 2]

\* Every fiber is in the queue of its state, once, and a running or exited
\* one in none.
QueuesMatchStates ==
  \A f \in FiberIds :
     LET inReady == Cardinality({i \in 1 .. Len(fiber_scheduler.ready) :
                                    fiber_scheduler.ready[i] = f})
         inWaiting == IF f \in fiber_scheduler.waiting THEN 1 ELSE 0
         isCurrent == IF fiber_scheduler.current = f THEN 1 ELSE 0
     IN /\ inReady + inWaiting + isCurrent <= 1
        /\ inReady = 1 => fibers[f].state = "READY"
        /\ inWaiting = 1 => fibers[f].state = "WAITING"
        /\ (fibers[f].state = "EXITED" /\ isCurrent = 0) =>
              inReady + inWaiting = 0

\* C24: dispatch always swaps into the head of ready; after the fiber has
\* yielded, an EXITED fiber is in no queue, a WAITING fiber is in waiting, and
\* a fiber that is still READY is appended to the tail of ready, behind the
\* fibers that were queued already.
C24_DispatchFifo ==
  /\ []QueuesMatchStates
  /\ [][/\ (loop = "locked" /\ loop' = "fiber") =>
             /\ fiber_scheduler'.current = Head(fiber_scheduler.ready)
             /\ fiber_scheduler'.ready = Tail(fiber_scheduler.ready)
             /\ resumed' = Append(resumed, Head(fiber_scheduler.ready))
        /\ (loop = "yielded" /\ loop' = "locked") =>
             LET f == fiber_scheduler.current
             IN /\ fiber_scheduler'.current = 0
                /\ fibers[f].state = "EXITED" =>
                      /\ f \notin Range(fiber_scheduler'.ready)
                      /\ f \notin fiber_scheduler'.waiting
                /\ fibers[f].state = "WAITING" =>
                      /\ f \in fiber_scheduler'.waiting
                      /\ fiber_scheduler'.ready = fiber_scheduler.ready
                /\ fibers[f].state = "READY" =>
                      /\ fiber_scheduler'.ready =
                           Append(fiber_scheduler.ready, f)
                      /\ f \notin fiber_scheduler'.waiting]_svars

\* Fiber 1 ran first and yielded while fiber 2 was queued: it is behind
\* fiber 2 now, and fiber 2 runs next.
C24_Witness ==
  /\ resumed = <<1, 2>>
  /\ fiber_scheduler.current = 2
  /\ fiber_scheduler.ready = <<1>>
  /\ fibers[1].left = MaxOps - 1
  /\ fibers[1].state = "READY"

\* C25: no wake-up is lost in await.  A fiber is moved from WAITING to READY
\* at most once for each time it parked, and a fiber that is WAITING still
\* has its wake-up ahead: its listener is on the list of the pending future
\* or on a list a completing thread has detached and is working through.
C25_NoLostWakeup ==
  \A f \in FiberIds :
     /\ wakes[f].woken <= wakes[f].parked
     /\ wakes[f].parked <= wakes[f].woken + 1
     /\ fibers[f].state = "WAITING" =>
           /\ wakes[f].parked = wakes[f].woken + 1
           /\ \/ /\ awaited[fibers[f].future].status = "PENDING"
                 /\ f \in Range(awaited[fibers[f].future].listeners)
              \/ f \in Range(other.detached)
              \/ \E g \in FiberIds : f \in Range(fibers[g].detached)

(* --------- DexTimeout: dex_timeout_new_seconds, dex_timeout_new_msec ---- *)

\* The relative constructors on a 64-bit target (int of 32 bits, long and
\* gint64 of 64 bits).  Values wider than 31 bits are kept as 16-bit limbs,
\* lowest first: two limbs for an int, four for a gint64.

G_USEC_PER_SEC == 1000000

Limb == 2 ^ 16

\* A non-negative int as two limbs.
IntLimbs(n) == <<n % Limb, n \div Limb>>

\* The product of two non-negative ints, in full: four limbs.
Multiply(n, c) ==
  LET p0 == n[1] * c[1]
      p1 == n[1] * c[2] + n[2] * c[1] + p0 \div Limb
      p2 == n[2] * c[2] + p1 \div Limb
  IN <<p0 % Limb, p1 % Limb, p2 % Limb, p2 \div Limb>>

\* The sum of two 64-bit values, modulo 2^64.
Add64(a, b) ==
  LET s1 == a[1] + b[1]
      s2 == a[2] + b[2] + s1 \div Limb
      s3 == a[3] + b[3] + s2 \div Limb
      s4 == a[4] + b[4] + s3 \div Limb
  IN <<s1 % Limb, s2 % Limb, s3 % Limb, s4 % Limb>>

\* An int (the low 32 bits of g) assigned to a gint64: the sign is extended.
Int64OfInt(g) ==
  LET s == IF g[2] >= Limb \div 2 THEN Limb - 1 ELSE 0
  IN <<g[1], g[2], s, s>>

\* What an int * int multiplication can leave in the gint64 it is assigned
\* to: the product when it fits an int; on signed overflow, which is
\* undefined, the low 32 bits as an int or the product of a wider multiply.
IntTimesInt(n, c) ==
  LET wide == Multiply(IntLimbs(n), IntLimbs(c))
  IN {wide, Int64OfInt(wide)}

\* int * long: the int is converted to long, the product has 64 bits.
LongTimesInt(c, n) == {Multiply(IntLimbs(n), IntLimbs(c))}

\* The arguments tried: small ones, the last that fits and the first that
\* does not for seconds (2147, 2148), for the unsigned range (4294, 4295),
\* some large ones, and INT_MAX.
IntArgs == {0, 1, 1000, 2147, 2148, 4294, 4295, 65536, 2147484, 2147483647}

\* Values of g_get_monotonic_time.
MonotonicTimes ==
  {Zero64, <<1, 0, 0, 0>>, <<16960, 15, 0, 0>>, <<65535, 65535, 0, 0>>,
   <<0, 0, 1, 0>>}

InitArming == ArmingUnused

\* Lines 129-134: gint64 usec = G_USEC_PER_SEC * seconds;
\* dex_timeout_new_deadline (g_get_monotonic_time () + usec).
dex_timeout_new_seconds(seconds) ==
  /\ armed.func = "none"
  /\ \E mono \in MonotonicTimes :
       \E usec \in IntTimesInt(G_USEC_PER_SEC, seconds) :
          armed' = [func |-> "dex_timeout_new_seconds", arg |-> seconds,
                    mono |-> mono,
                    deadline |->
                      dex_timeout_new_deadline(Add64(mono, usec)).ready_time]
  /\ UNCHANGED notArming

\* Lines 136-141: gint64 usec = (G_USEC_PER_SEC/1000L) * msec;
\* dex_timeout_new_deadline (g_get_monotonic_time () + usec).
dex_timeout_new_msec(msec) ==
  /\ armed.func = "none"
  /\ \E mono \in MonotonicTimes :
       \E usec \in LongTimesInt(G_USEC_PER_SEC \div 1000, msec) :
          armed' = [func |-> "dex_timeout_new_msec", arg |-> msec,
                    mono |-> mono,
                    deadline |->
                      dex_timeout_new_deadline(Add64(mono, usec)).ready_time]
  /\ UNCHANGED notArming

\* The caller drops the timeout and makes another one.
dex_timeout_new_unref ==
  /\ armed.func # "none"
  /\ armed' = [func |-> "none", arg |-> 0, mono |-> Zero64,
               deadline |-> Zero64]
  /\ UNCHANGED notArming

NextArming ==
  \/ \E n \in IntArgs : dex_timeout_new_seconds(n)
  \/ \E n \in IntArgs : dex_timeout_new_msec(n)
  \/ dex_timeout_new_unref

InitArmingOnly ==
  InitArming /\ ChannelUnused /\ TimeoutUnused /\ FiberUnused /\ FutureUnused
  /\ SchedulerUnused /\ UringUnused

SpecArming == InitArmingOnly /\ [][NextArming]_allvars

\* now + k * n microseconds as a 64-bit value, k and n non-negative ints.
DeadlineAfter(mono, k, n) == Add64(mono, Multiply(IntLimbs(k), IntLimbs(n)))

\* C27 as claimed: for every non-negative int n, dex_timeout_new_seconds(n)
\* arms the deadline now + 1,000,000 * n microseconds and
\* dex_timeout_new_msec(n) arms now + 1,000 * n microseconds, as 64-bit
\* values.
C27_DeadlineNotWrapped ==
  /\ armed.func = "dex_timeout_new_seconds" =>
        armed.deadline = DeadlineAfter(armed.mono, 1000000, armed.arg)
  /\ armed.func = "dex_timeout_new_msec" =>
        armed.deadline = DeadlineAfter(armed.mono, 1000, armed.arg)


(* ------------------------ io_uring AIO context -------------------------- *)
(* dex-uring-aio-backend.c.  A request is a DexUringFuture; the n-th call  *)
(* of dex_uring_aio_context_queue passes future n.  The ring holds the     *)
(* submission entries not yet handed to the kernel (sq), the requests the  *)
(* kernel is working on (kernel) and the completion entries (cq).          *)
(* Everything queue and prepare do to the ring and to queued is between    *)
(* g_mutex_lock and g_mutex_unlock, so each is one step.                   *)

Requests == 1 .. MaxRequests

InitUring == UringUnused

\* Number of entries prepared and not yet submitted.
io_uring_sq_ready(ring) == Len(ring.sq)

\* Number of completion entries waiting for dispatch.
io_uring_cq_ready(ring) == Len(ring.cq)

\* Whether io_uring_get_sqe has an entry to give: NULL when the ring is full.
io_uring_get_sqe(ring) == Len(ring.sq) < UringSize

\* io_uring_submit hands every prepared entry to the kernel, or fails and
\* leaves the ring as it was.
io_uring_submit(ring, ok) ==
  IF ok
  THEN [ring EXCEPT !.sq = <<>>, !.kernel = @ \cup Range(ring.sq)]
  ELSE ring

\* dex_uring_future_prepare and io_uring_sqe_set_data on the entry just taken.
dex_uring_future_prepare(ring, f) == [ring EXCEPT !.sq = Append(@, f)]

\* The test of dex_uring_aio_context_queue: straight onto the ring only when
\* nothing waits in queued and the ring has an entry.
queue_directly_ignores_queued(ctx) == io_uring_get_sqe(ctx.ring)

queue_directly(ctx) == Len(ctx.queued) = 0 /\ io_uring_get_sqe(ctx.ring)

dex_uring_aio_context_queue ==
  /\ nqueue < MaxRequests
  /\ LET f == nqueue + 1 IN
       IF queue_directly(aio_context)
       THEN /\ aio_context' = [aio_context EXCEPT
                                 !.ring = dex_uring_future_prepare(@, f)]
            /\ prepared' = Append(prepared, [future |-> f, direct |-> TRUE])
       ELSE /\ aio_context' = [aio_context EXCEPT
                                 !.queued = g_queue_push_tail(@, f)]
            /\ prepared' = prepared
  /\ nqueue' = nqueue + 1
  /\ UNCHANGED completed
  /\ UNCHANGED notUring

RECURSIVE DrainQueued(_, _)
DrainQueued(ctx, log) ==
  IF Len(ctx.queued) > 0 /\ io_uring_get_sqe(ctx.ring)
  THEN DrainQueued([ring |-> dex_uring_future_prepare(ctx.ring, Head(ctx.queued)),
                    queued |-> Tail(ctx.queued)],
                   Append(log, [future |-> Head(ctx.queued), direct |-> FALSE]))
  ELSE [ctx |-> ctx, log |-> log]

dex_uring_aio_context_prepare ==
  /\ \E ok1, ok2 \in BOOLEAN :
       LET r1 == IF io_uring_sq_ready(aio_context.ring) > 0
                 THEN io_uring_submit(aio_context.ring, ok1)
                 ELSE aio_context.ring
           d == DrainQueued([aio_context EXCEPT !.ring = r1], prepared)
           do_submit == Len(d.log) > Len(prepared)
           r2 == IF do_submit THEN io_uring_submit(d.ctx.ring, ok2) ELSE d.ctx.ring
       IN
         /\ aio_context' = [d.ctx EXCEPT !.ring = r2]
         /\ prepared' = d.log
  /\ UNCHANGED <<nqueue, completed>>
  /\ UNCHANGED notUring

\* The kernel finishes a request it was handed and posts its completion.
io_uring_complete(f) ==
  /\ f \in aio_context.ring.kernel
  /\ aio_context' = [aio_context EXCEPT !.ring.kernel = @ \ {f},
                                        !.ring.cq = Append(@, f)]
  /\ UNCHANGED <<nqueue, prepared, completed>>
  /\ UNCHANGED notUring

dex_uring_aio_context_dispatch ==
  /\ io_uring_cq_ready(aio_context.ring) > 0
  /\ \E ok \in BOOLEAN :
       LET r1 == [aio_context.ring EXCEPT !.cq = <<>>]
           r2 == IF io_uring_sq_ready(r1) > 0 THEN io_uring_submit(r1, ok) ELSE r1
       IN aio_context' = [aio_context EXCEPT !.ring = r2]
  /\ completed' = completed \cup Range(aio_context.ring.cq)
  /\ UNCHANGED <<nqueue, prepared>>
  /\ UNCHANGED notUring

NextUring ==
  \/ dex_uring_aio_context_queue
  \/ dex_uring_aio_context_prepare
  \/ \E f \in Requests : io_uring_complete(f)
  \/ dex_uring_aio_context_dispatch

InitUringOnly ==
  InitUring /\ ChannelUnused /\ TimeoutUnused /\ FiberUnused /\ FutureUnused
  /\ SchedulerUnused /\ ArmingUnused

SpecUring == InitUringOnly /\ [][NextUring]_allvars

\* The futures of the dex_uring_future_prepare calls, in order.
PreparedFutures == [i \in 1 .. Len(prepared) |-> prepared[i].future]

(* C34: the futures prepared onto the ring, followed by those waiting in
   queued, are exactly the futures passed to dex_uring_aio_context_queue in
   the order of the calls: none is missing, none is there twice and none has
   overtaken an earlier one.  A queue call prepares its future itself only
   when queued is empty, and otherwise appends it to queued.  What has been
   prepared is on the ring, with the kernel, completing or completed, in one
   place only. *)
C34_PreparedOnceInOrder ==
  /\ [](LET all == PreparedFutures \o aio_context.queued IN
          /\ Len(all) = nqueue
          /\ \A i \in 1 .. nqueue : all[i] = i)
  /\ [](LET ring == aio_context.ring
            n == Len(prepared) IN
          /\ ring.sq = SubSeq(PreparedFutures, n - Len(ring.sq) + 1, n)
          /\ Range(ring.sq) \cup ring.kernel \cup Range(ring.cq) \cup completed
               = Range(PreparedFutures)
          /\ Len(ring.sq) + Cardinality(ring.kernel) + Len(ring.cq)
               + Cardinality(completed) = n)
  /\ [][nqueue' = nqueue + 1 =>
          IF aio_context.queued = <<>>
          THEN \/ Len(prepared') = Len(prepared) + 1 /\ aio_context'.queued = <<>>
               \/ /\ ~io_uring_get_sqe(aio_context.ring)
                  /\ aio_context'.queued = <<nqueue'>>
          ELSE /\ prepared' = prepared
               /\ aio_context'.queued = Append(aio_context.queued, nqueue')]_uvars

C34_Witness ==
  /\ \E i, j \in 1 .. Len(prepared) :
       i < j /\ ~prepared[i].direct /\ prepared[j].direct
  /\ aio_context.queued # <<>>
  /\ completed # {}

=============================================================================
